---- MODULE Spec2Model ----
(***************************************************************************)
(* HypnoS NNUE evaluation: the Phase Detector, the Style Blend Engine, the *)
(* Blend Cache, the process-wide Strategy weights, the Evaluation Blender, *)
(* the Model Selector and the Parameter Store & Serializer of              *)
(* src/nnue/evaluate_nnue.cpp, and the Engine's searches and network       *)
(* reloads, as a state machine.                                            *)
(***************************************************************************)
EXTENDS Integers, Sequences, FiniteSets, TLC

VARIABLES
    stablePhase,            \* thread_local int stablePhase          (per thread)
    stabilityCounter,       \* thread_local int stabilityCounter     (per thread)
    phaseChangeCooldown,    \* thread_local int phaseChangeCooldown  (per thread)
    hist,                   \* observer: the last calls of determine_dynamic_phase of each thread
    sinceCommit,            \* observer: calls of a thread since its last phase commit
    commitPhase,            \* observer: the phase of a thread's last commit
    gBlendCache,            \* thread_local ShashinBlendCache gBlendCache (per thread)
    StrategyMaterialWeight, \* int StrategyMaterialWeight   (process-wide)
    StrategyPositionalWeight, \* int StrategyPositionalWeight (process-wide)
    gLastCommitted,         \* thread_local gLastCommittedMaterialWeight / ...PositionalWeight
    lastSeen,               \* thread_local lastPhase, lastTalWeight, ... of update_weights
    Options,                \* the configuration toggles the blend reads
    call,                   \* observer: the last call of update_weights_with_blend of each thread
    solo,                   \* observer: each thread's detector and cache key as if it ran alone
    normIn,                 \* the weights that enter step 5 of update_weights_with_blend
    normOut,                \* the weights that leave it (<<>> before the step)
    ev,                     \* the last call of evaluate / evaluate<Net_Size>: arguments and results
    hint,                   \* the last call of hint_common_parent_position: the access it hinted
    store,                  \* per NetSize: fileName, netDescription, featureTransformer, network[]
    stream,                 \* the std::iostream handed to load_eval / save_eval
    io,                     \* the last call of load_eval / save_eval: arguments and result
    files,                  \* the file system: the bytes of each file, or NoFile
    EvalFiles,              \* EvalFiles.at(netSize).selected_name
    engine,                 \* the Engine: command thread, search, options, networks
    piece_on,               \* pos.piece_on(sq) of the position handed to trace
    accumulatorBig,         \* pos.state()->accumulatorBig: computed flags and contents
    tr,                     \* trace: its position in the code, its locals, and observers
    buckets,                \* the buckets of the last two positions evaluated and traced
    committing,             \* per thread: the call of commit_strategy_weights in progress
    reading,                \* the adjusted evaluation in progress: the weights it has read
    written,                \* observer: the pairs commit_strategy_weights has begun to write
    pool,                   \* the Engine's numaContext, thread pool and transposition table
    position,               \* the Engine's state list, and the moves last given to set_position
    g_dyn,                  \* DynParams g_dyn: five std::atomic<int>
    dynCall,                \* observer: the last call of a set_dyn_* setter
    snap                    \* the call of dyn_snapshot in progress, and what was held during it

detVars == <<stablePhase, stabilityCounter, phaseChangeCooldown>>
obsVars == <<hist, sinceCommit, commitPhase>>
phaseVars == <<detVars, obsVars>>
blendVars == <<gBlendCache, StrategyMaterialWeight, StrategyPositionalWeight,
               gLastCommitted, lastSeen, Options, call, solo>>
normVars == <<normIn, normOut>>
evalVars == <<ev, hint>>
storeVars == <<store, stream, io, files, EvalFiles>>
engineVars == <<engine>>
traceVars == <<piece_on, accumulatorBig, tr, buckets>>
raceVars == <<committing, reading, written>>
poolVars == <<pool>>
positionVars == <<position>>
dynVars == <<g_dyn, dynCall, snap>>
lateVars == <<raceVars, poolVars, positionVars, dynVars>>
tailVars == <<traceVars, lateVars>>
extVars == <<evalVars, storeVars, engineVars, tailVars>>
vars == <<phaseVars, blendVars, normVars, extVars>>

-----------------------------------------------------------------------------
(* Threads and thread-local storage *)

MainThread == "t1"
Threads == {"t1", "t2"}

\* Faulty variant: `static` without `thread_local`: one instance for all threads.
TLS_Shared(t) == MainThread

\* A `static thread_local` object has one instance per thread: thread t uses
\* the instance of t.
TLS(t) == t

-----------------------------------------------------------------------------
(* Positions *)

\* piece_value(): the standard middlegame piece values of types.h.
PieceValue(p) ==
    CASE p = "P" -> 208
      [] p = "N" -> 781
      [] p = "B" -> 825
      [] p = "R" -> 1276
      [] p = "Q" -> 2538
      [] OTHER   -> 0

\* The boards the model evaluates, by position key: the pieces on the occupied
\* squares ("K" is a king; empty squares are left out).
Boards ==
    << <<"K", "K", "Q">>,            \* 2538
       <<"K", "K", "R", "P">>,       \* 1484
       <<"K", "K", "R">>,            \* 1276
       <<"K", "K", "N", "B">>,       \* 1606
       <<"K", "K", "R", "N">> >>     \* 2057

NumPositions == 3
Keys == 1..NumPositions

BoardOf(k) == Boards[((k - 1) % Len(Boards)) + 1]

RECURSIVE SumValues(_, _)
SumValues(board, i) ==
    IF i > Len(board) THEN 0
    ELSE (IF board[i] # "K" THEN PieceValue(board[i]) ELSE 0) + SumValues(board, i + 1)

calculate_material(k) == SumValues(BoardOf(k), 1)

-----------------------------------------------------------------------------
(* Phase Detector *)

thresholdForEndgame == 1300
thresholdForMiddlegame == 2000
stabilityThreshold == 3
cooldownMax == 4

\* Faulty variant: the middlegame threshold is tested first, so that no
\* material is an endgame material.
CandidatePhase_MiddlegameFirst(remainingMaterial) ==
    IF remainingMaterial <= thresholdForMiddlegame THEN 1
    ELSE IF remainingMaterial <= thresholdForEndgame THEN 2
    ELSE 0

\* currentPhase of determine_dynamic_phase: 0 opening, 1 middlegame, 2 endgame.
CandidatePhase(remainingMaterial) ==
    IF remainingMaterial <= thresholdForEndgame THEN 2
    ELSE IF remainingMaterial <= thresholdForMiddlegame THEN 1
    ELSE 0

\* The cooldown branch: in cooldown and a different phase is detected.
\* Faulty variant: the cooldown test never rejects a differing candidate.
CooldownRejects_Off(s, currentPhase) ==
    s.cooldown > cooldownMax /\ currentPhase # s.stable

CooldownRejects(s, currentPhase) ==
    s.cooldown > 0 /\ currentPhase # s.stable

\* Faulty variant: the threshold test written with > : the commit comes one call late.
DetectorStepLate(s, currentPhase) ==
    IF CooldownRejects(s, currentPhase)
    THEN [s EXCEPT !.cooldown = @ - 1]
    ELSE IF currentPhase # s.stable
         THEN IF s.counter + 1 > stabilityThreshold
              THEN [stable |-> currentPhase, counter |-> 0, cooldown |-> cooldownMax]
              ELSE [s EXCEPT !.counter = @ + 1]
         ELSE [s EXCEPT !.counter = 0,
                        !.cooldown = IF @ > 0 THEN @ - 1 ELSE @]

\* Faulty variant: the cooldown is not armed at a commit.
DetectorStepNoCooldown(s, currentPhase) ==
    IF CooldownRejects(s, currentPhase)
    THEN [s EXCEPT !.cooldown = @ - 1]
    ELSE IF currentPhase # s.stable
         THEN IF s.counter + 1 >= stabilityThreshold
              THEN [stable |-> currentPhase, counter |-> 0, cooldown |-> s.cooldown]
              ELSE [s EXCEPT !.counter = @ + 1]
         ELSE [s EXCEPT !.counter = 0,
                        !.cooldown = IF @ > 0 THEN @ - 1 ELSE @]

\* Faulty variant: a call rejected by the cooldown also counts the observation.
DetectorStep_RejectCounts(s, currentPhase) ==
    IF CooldownRejects(s, currentPhase)
    THEN [s EXCEPT !.cooldown = @ - 1, !.counter = @ + 1]
    ELSE IF currentPhase # s.stable
         THEN IF s.counter + 1 >= stabilityThreshold
              THEN [stable |-> currentPhase, counter |-> 0, cooldown |-> cooldownMax]
              ELSE [s EXCEPT !.counter = @ + 1]
         ELSE [s EXCEPT !.counter = 0,
                        !.cooldown = IF @ > 0 THEN @ - 1 ELSE @]

\* The body of determine_dynamic_phase after currentPhase is known, on the
\* detector state s = [stable, counter, cooldown] of the calling thread.
DetectorStep(s, currentPhase) ==
    IF CooldownRejects(s, currentPhase)
    THEN [s EXCEPT !.cooldown = @ - 1]
    ELSE IF currentPhase # s.stable
         THEN IF s.counter + 1 >= stabilityThreshold
              THEN [stable |-> currentPhase, counter |-> 0, cooldown |-> cooldownMax]
              ELSE [s EXCEPT !.counter = @ + 1]
         ELSE [s EXCEPT !.counter = 0,
                        !.cooldown = IF @ > 0 THEN @ - 1 ELSE @]

\* Whether the call changes the stable phase (the `stablePhase = currentPhase` branch).
Commits(s, currentPhase) == DetectorStep(s, currentPhase).stable # s.stable

DetectorOf(t) ==
    [stable   |-> stablePhase[TLS(t)],
     counter  |-> stabilityCounter[TLS(t)],
     cooldown |-> phaseChangeCooldown[TLS(t)]]

\* Observer bound: the cap of the calls-since-commit counter.
SinceCap == 6

\* The observer keeps the last three calls of a thread.
Push(h, e) == IF Len(h) < 3 THEN Append(h, e) ELSE Append(Tail(h), e)

\* The effect of one call of determine_dynamic_phase by thread t that sees
\* candidate phase cur on the three thread-local statics.
DetectorEffect(t, cur) ==
    LET s2 == DetectorStep(DetectorOf(t), cur)
    IN  /\ stablePhase' = [stablePhase EXCEPT ![TLS(t)] = s2.stable]
        /\ stabilityCounter' = [stabilityCounter EXCEPT ![TLS(t)] = s2.counter]
        /\ phaseChangeCooldown' = [phaseChangeCooldown EXCEPT ![TLS(t)] = s2.cooldown]

\* The observers of a call of determine_dynamic_phase made from outside the
\* blend: the call, what it returned and the detector state it found.
ObserveCall(t, cur) ==
    LET s  == DetectorOf(t)
        s2 == DetectorStep(s, cur)
    IN  /\ hist' = [hist EXCEPT ![t] =
                      Push(@, [cand |-> cur, ret |-> s2.stable, pre |-> s])]
        /\ sinceCommit' = [sinceCommit EXCEPT ![t] =
                      IF Commits(s, cur) THEN 0
                      ELSE IF @ < 0 THEN @
                      ELSE IF @ < SinceCap THEN @ + 1 ELSE @]
        /\ commitPhase' = [commitPhase EXCEPT ![t] =
                      IF Commits(s, cur) THEN cur ELSE @]

\* int determine_dynamic_phase(const Position& pos), called by thread t.
determine_dynamic_phase(t, k) ==
    /\ DetectorEffect(t, CandidatePhase(calculate_material(k)))
    /\ ObserveCall(t, CandidatePhase(calculate_material(k)))

InitPhase ==
    /\ stablePhase = [t \in Threads |-> 0]
    /\ stabilityCounter = [t \in Threads |-> 0]
    /\ phaseChangeCooldown = [t \in Threads |-> 0]
    /\ hist = [t \in Threads |-> <<>>]
    /\ sinceCommit = [t \in Threads |-> -1]
    /\ commitPhase = [t \in Threads |-> -1]

-----------------------------------------------------------------------------
(* Integer helpers *)

\* C++ integer division by a positive divisor: the quotient is truncated
\* toward zero.
CDiv(a, b) == IF a >= 0 THEN a \div b ELSE -((-a) \div b)

\* std::clamp
Clamp(x, lo, hi) == IF x < lo THEN lo ELSE IF x > hi THEN hi ELSE x

-----------------------------------------------------------------------------
(* What the blend reads of a position *)

\* pos.checkers(), pos.attackers_to(king squares) and, for every piece of the
\* opponent, <<attackers of the side to move, defenders>>, by position key.
Tactics ==
    << [checkers |-> 0, attUs |-> 0, attThem |-> 0, opp |-> << <<1, 1>>, <<0, 0>> >>],
       [checkers |-> 0, attUs |-> 0, attThem |-> 0, opp |-> << <<0, 1>> >>],
       [checkers |-> 0, attUs |-> 0, attThem |-> 0, opp |-> << <<0, 0>>, <<0, 2>> >>],
       [checkers |-> 2, attUs |-> 2, attThem |-> 2, opp |-> << <<2, 0>>, <<1, 0>> >>],
       [checkers |-> 1, attUs |-> 1, attThem |-> 0, opp |-> << <<1, 0>> >>] >>

TacticsOf(k) == Tactics[((k - 1) % Len(Tactics)) + 1]

\* compute_positional_indicators(pos), by position key.
Indicators ==
    << [centerDominance |-> 100, kingSafety |-> 0, materialImbalance |-> 0,
        centerControl |-> 0, flankControl |-> 0, pieceActivity |-> 0],
       [centerDominance |-> 100, kingSafety |-> 0, materialImbalance |-> 0,
        centerControl |-> 0, flankControl |-> 0, pieceActivity |-> 0],
       [centerDominance |-> 100, kingSafety |-> 0, materialImbalance |-> 0,
        centerControl |-> 0, flankControl |-> 100, pieceActivity |-> 0],
       [centerDominance |-> 100, kingSafety |-> 100, materialImbalance |-> 100,
        centerControl |-> 100, flankControl |-> 100, pieceActivity |-> 100],
       [centerDominance |-> 100, kingSafety |-> 100, materialImbalance |-> 0,
        centerControl |-> 0, flankControl |-> 0, pieceActivity |-> 0] >>

IndicatorsOf(k) == Indicators[((k - 1) % Len(Indicators)) + 1]

\* Eval::apply_dynamic_shashin_weights(tal, pet, cap, pos): the style-weight
\* provider replaces the three in/out weights by the raw style weights of the
\* position, as <<tal, petrosian, capablanca>>.
RawWeights ==
    << <<20, 20, 20>>, <<24, 20, 18>>, <<14, 26, 0>>, <<33, 33, 34>>, <<70, 15, 15>> >>

ProviderRaw(k, w) == RawWeights[((k - 1) % Len(RawWeights)) + 1]

-----------------------------------------------------------------------------
(* Blend Cache *)

\* Faulty variant: the hit test compares the key alone.
blend_cache_hit_KeyOnly(t, k, phase) ==
    gBlendCache[TLS(t)].key = k

\* blend_cache_hit(pos, phase), on the cache of thread t.
blend_cache_hit(t, k, phase) ==
    gBlendCache[TLS(t)].key = k /\ gBlendCache[TLS(t)].phase = phase

CachedWeights(t) ==
    <<gBlendCache[TLS(t)].tal, gBlendCache[TLS(t)].pet, gBlendCache[TLS(t)].cap>>

\* update_blend_cache(pos, phase, tal, pet, cap): the entry written.
CacheEntry(k, phase, w) ==
    [key |-> k, phase |-> phase, tal |-> w[1], pet |-> w[2], cap |-> w[3]]

-----------------------------------------------------------------------------
(* Strategy weights *)

minWeight == 5
maxWeight == 30

\* The gate of update_weights and of update_weights_with_blend: the style is
\* disabled, or NNUE ManualWeights is on.
Gated == ~Options.style \/ Options.ManualWeights

\* The switch of update_weights: <<newMaterialWeight, newPositionalWeight>>
\* for a phase and weights w = <<tal, petrosian, capablanca>>.
PhaseWeights(phase, w) ==
    CASE phase = 0 -> <<CDiv(w[1] * 2 + w[2], 3), CDiv(w[3] * 2 + w[2], 3)>>
      [] phase = 1 -> <<CDiv(w[1] + w[2] + w[3], 3), CDiv(w[1] + w[2] + w[3], 3)>>
      [] phase = 2 -> <<CDiv(w[2] * 2 + w[3], 3), CDiv(w[3] * 2 + w[1], 3)>>

\* The fast path of update_weights: phase and inputs as at the thread's last call.
FastPath(t, phase, w) ==
    lastSeen[TLS(t)] = [phase |-> phase, tal |-> w[1], pet |-> w[2], cap |-> w[3]]

\* Whether update_weights(phase, pos, w) of thread t reaches
\* commit_strategy_weights.
ReachesCommit(t, phase, w) ==
    ~Gated /\ ~FastPath(t, phase, w) /\ phase \in 0..2

\* The dedup test of commit_strategy_weights.
CommitDedup(t, pair) == gLastCommitted[TLS(t)] = pair

\* update_weights(phase, pos, tal, pet, cap) of thread t, with
\* commit_strategy_weights inlined: the two process-wide weights, the
\* thread's last committed pair and its last-seen inputs.
update_weights(t, phase, w) ==
    IF ~ReachesCommit(t, phase, w)
    THEN UNCHANGED <<StrategyMaterialWeight, StrategyPositionalWeight,
                     gLastCommitted, lastSeen>>
    ELSE LET pair == PhaseWeights(phase, w)
         IN  /\ IF CommitDedup(t, pair)
                THEN UNCHANGED <<StrategyMaterialWeight, StrategyPositionalWeight,
                                 gLastCommitted>>
                ELSE /\ StrategyMaterialWeight' = pair[1]
                     /\ StrategyPositionalWeight' = pair[2]
                     /\ gLastCommitted' = [gLastCommitted EXCEPT ![TLS(t)] = pair]
             /\ lastSeen' = [lastSeen EXCEPT ![TLS(t)] =
                               [phase |-> phase, tal |-> w[1], pet |-> w[2], cap |-> w[3]]]

\* The pair update_weights hands to commit_strategy_weights, or <<>> when the
\* call does not reach it.
CommitPair(t, phase, w) ==
    IF ReachesCommit(t, phase, w) THEN PhaseWeights(phase, w) ELSE <<>>

-----------------------------------------------------------------------------
(* Style Blend Engine *)

\* tacticalComplexity of update_weights_with_blend.
TacticalTerm(o) ==
    (IF o[1] > 0 THEN 1 ELSE 0) + (IF o[1] > 0 /\ o[2] = 0 THEN 1 ELSE 0)

RECURSIVE SumTactical(_, _)
SumTactical(opp, i) ==
    IF i > Len(opp) THEN 0 ELSE TacticalTerm(opp[i]) + SumTactical(opp, i + 1)

TacticalComplexity(k) ==
    LET tc == TacticsOf(k)
    IN  Clamp(2 * tc.checkers + 2 * tc.attUs + 2 * tc.attThem + SumTactical(tc.opp, 1),
              0, 12)

\* const float phaseFactor = dynamicPhase / 100.0f, in hundredths.
phaseFactor(dynamicPhase) == dynamicPhase

\* int((1.0f - phaseFactor) * a + phaseFactor * b) with
\* phaseFactor = dynamicPhase / 100.0f. On the indicator pairs of the model
\* ((0,0), (100,0) and (100,100)) the float expression and this quotient agree.
Target(phase, a, b) ==
    CDiv((100 - phaseFactor(phase)) * a + phaseFactor(phase) * b, 100)

\* Steps 3 and 4, first half: the provider's raw weights averaged with the
\* indicator targets, w' = (w + target) / 2, as <<tal, petrosian, capablanca>>.
AveragedWeights(k, phase, w) ==
    LET raw == ProviderRaw(k, w)
        ind == IndicatorsOf(k)
        tal == CDiv(raw[1] + Target(phase, ind.centerDominance, ind.kingSafety), 2)
        cap == CDiv(raw[3] + Target(phase, ind.materialImbalance, ind.centerControl), 2)
        pet == CDiv(raw[2] + Target(phase, ind.flankControl, ind.pieceActivity), 2)
    IN  <<tal, pet, cap>>

\* Faulty variant: the nudge adds the complexity to Tal once.
Nudge_TalOnce(w, tacticalComplexity) ==
    IF tacticalComplexity > 0
    THEN <<w[1] + tacticalComplexity, w[2] - tacticalComplexity, w[3] - tacticalComplexity>>
    ELSE w

\* The tactical nudge of step 4 on <<tal, petrosian, capablanca>>.
Nudge(w, tacticalComplexity) ==
    IF tacticalComplexity > 0
    THEN <<w[1] + tacticalComplexity * 2, w[2] - tacticalComplexity,
           w[3] - tacticalComplexity>>
    ELSE w

\* Steps 3 and 4 of update_weights_with_blend: the provider's raw weights
\* mixed with the indicator targets, then the tactical nudge. The result is
\* what update_weights is called with.
MixedWeights(k, phase, w) == Nudge(AveragedWeights(k, phase, w), TacticalComplexity(k))

\* Faulty variant: the first and the third weight are rescaled and the second
\* (Petrosian) takes the residual.
Normalize_ResidualToPetrosian(w) ==
    LET tal == Clamp(w[1], 0, 100)
        pet == Clamp(w[2], 0, 100)
        cap == Clamp(w[3], 0, 100)
        total == tal + pet + cap
    IN  IF total > 0 /\ total # 100
        THEN LET newTal == (tal * 100 + total \div 2) \div total
                 newCap == (cap * 100 + total \div 2) \div total
             IN  <<newTal, Clamp(100 - (newTal + newCap), 0, 100), newCap>>
        ELSE <<tal, pet, cap>>

\* Step 5: clamp each weight to [0,100] and rescale to a total of 100.
Normalize(w) ==
    LET tal == Clamp(w[1], 0, 100)
        pet == Clamp(w[2], 0, 100)
        cap == Clamp(w[3], 0, 100)
        total == tal + pet + cap
    IN  IF total > 0 /\ total # 100
        THEN LET newTal == (tal * 100 + total \div 2) \div total
                 newPet == (pet * 100 + total \div 2) \div total
             IN  <<newTal, newPet, Clamp(100 - (newTal + newPet), 0, 100)>>
        ELSE <<tal, pet, cap>>

\* The weights the recomputation path returns.
Recompute(k, phase, w) == Normalize(MixedWeights(k, phase, w))

\* The phase update_weights is called with: the detector's, or the default 1
\* when NNUE Dynamic Weights is off.
CommitPhaseArg(dynamicPhase) == IF Options.DynamicWeights THEN dynamicPhase ELSE 1

\* Faulty variant: the gate tests the style switch alone.
SkipsBlend_StyleOnly == ~Options.style

\* The two early exits of update_weights_with_blend.
SkipsBlend == Gated

\* Faulty variant: a hit hands back the cached weights and goes on to recompute.
ServedFromCache_Never(t, k, phase) == FALSE

\* Whether the call returns at the cache-hit branch.
ServedFromCache(t, k, phase) == blend_cache_hit(t, k, phase)

\* The observer of a thread running alone: its own detector state, the key and
\* phase of its own cache entry, and the phase and the hit/miss outcome of its
\* last ungated call, all computed from the thread's own calls only.
SoloStep(so, k) ==
    LET det == DetectorStep(so.det, CandidatePhase(calculate_material(k)))
    IN  [det |-> det, key |-> k, phase |-> det.stable, ret |-> det.stable,
         hit |-> (so.key = k /\ so.phase = det.stable)]

\* update_weights_with_blend(pos, tal, pet, cap) called by thread t on the
\* position of key k with in/out weights w.
update_weights_with_blend(t, k, w) ==
    LET cur   == CandidatePhase(calculate_material(k))
        phase == DetectorStep(DetectorOf(t), cur).stable
        mixed == MixedWeights(k, phase, w)
        out   == Normalize(mixed)
        obs(gated, hit, recomputed, ph, o, commit) ==
            [seq |-> 1 - call[t].seq, key |-> k, inw |-> w, gated |-> gated,
             hit |-> hit, phase |-> ph, out |-> o, recomputed |-> recomputed,
             commit |-> commit]
    IN  IF SkipsBlend
        THEN /\ call' = [call EXCEPT ![t] = obs(TRUE, FALSE, FALSE, -1, w, <<>>)]
             /\ UNCHANGED <<phaseVars, gBlendCache, StrategyMaterialWeight,
                            StrategyPositionalWeight, gLastCommitted, lastSeen,
                            Options, solo>>
        ELSE /\ DetectorEffect(t, cur)
             /\ solo' = [solo EXCEPT ![t] = SoloStep(@, k)]
             /\ UNCHANGED <<obsVars, Options>>
             /\ IF ServedFromCache(t, k, phase)
                THEN /\ call' = [call EXCEPT ![t] =
                                   obs(FALSE, TRUE, FALSE, phase, CachedWeights(t), <<>>)]
                     /\ UNCHANGED <<gBlendCache, StrategyMaterialWeight,
                                    StrategyPositionalWeight, gLastCommitted, lastSeen>>
                ELSE /\ update_weights(t, CommitPhaseArg(phase), mixed)
                     /\ gBlendCache' = [gBlendCache EXCEPT ![TLS(t)] =
                                          CacheEntry(k, phase, out)]
                     /\ call' = [call EXCEPT ![t] =
                                   obs(FALSE, FALSE, TRUE, phase, out,
                                       CommitPair(t, CommitPhaseArg(phase), mixed))]

\* apply_dynamic_blend(tal, petrosian, capablanca)
apply_dynamic_blend(w) ==
    /\ StrategyMaterialWeight' =
           Clamp(CDiv(25 * w[1] + 10 * w[3] + 0 * w[2], 100), minWeight, maxWeight)
    /\ StrategyPositionalWeight' =
           Clamp(CDiv(5 * w[1] + 15 * w[3] + 25 * w[2], 100), minWeight, maxWeight)
    /\ UNCHANGED <<phaseVars, gBlendCache, gLastCommitted, lastSeen, Options, call, solo>>

\* adjust_nnue_for_style(currentStyle)
adjust_nnue_for_style(style) ==
    /\ CASE style = "Tal" ->
              /\ StrategyMaterialWeight' =
                     Clamp(StrategyMaterialWeight + 5, minWeight, maxWeight)
              /\ StrategyPositionalWeight' =
                     Clamp(StrategyPositionalWeight - 5, minWeight, maxWeight)
         [] style = "Petrosian" ->
              /\ StrategyMaterialWeight' =
                     Clamp(StrategyMaterialWeight - 5, minWeight, maxWeight)
              /\ StrategyPositionalWeight' =
                     Clamp(StrategyPositionalWeight + 5, minWeight, maxWeight)
         [] style = "Capablanca" ->
              /\ StrategyMaterialWeight' = 15
              /\ StrategyPositionalWeight' = 15
    /\ UNCHANGED <<phaseVars, gBlendCache, gLastCommitted, lastSeen, Options, call, solo>>

\* A UCI setoption on one of the three toggles.
set_option(name, value) ==
    /\ Options[name] # value
    /\ Options' = [Options EXCEPT ![name] = value]
    /\ UNCHANGED <<phaseVars, gBlendCache, StrategyMaterialWeight,
                   StrategyPositionalWeight, gLastCommitted, lastSeen, call, solo>>

\* The caller-supplied in/out weights, as <<tal, petrosian, capablanca>>.
InWeights == {<<0, 0, 0>>, <<120, -10, 5>>}

Styles == {"Tal", "Capablanca", "Petrosian"}

InitBlend ==
    /\ gBlendCache = [t \in Threads |->
                        [key |-> 0, phase |-> -1, tal |-> -1, pet |-> -1, cap |-> -1]]
    /\ StrategyMaterialWeight = 0
    /\ StrategyPositionalWeight = 0
    /\ gLastCommitted = [t \in Threads |-> <<-9999, -9999>>]
    /\ lastSeen = [t \in Threads |-> [phase |-> -1, tal |-> -1, pet |-> -1, cap |-> -1]]
    /\ Options = [style |-> TRUE, ManualWeights |-> FALSE, DynamicWeights |-> TRUE]
    /\ call = [t \in Threads |->
                 [seq |-> 0, key |-> 0, inw |-> <<0, 0, 0>>, gated |-> TRUE, hit |-> FALSE,
                  phase |-> -1, out |-> <<0, 0, 0>>, recomputed |-> FALSE, commit |-> <<>>]]
    /\ solo = [t \in Threads |->
                 [det |-> [stable |-> 0, counter |-> 0, cooldown |-> 0],
                  key |-> 0, phase |-> -1, ret |-> -1, hit |-> FALSE]]

InitNorm == normIn = <<0, 0, 0>> /\ normOut = <<>>

-----------------------------------------------------------------------------
(* Parameter Store & Serializer: streams *)

\* Version of nnue/nnue_common.h, and the hash values of the header, of the
\* feature transformer and of the sub-network of each size.
Version == 513

HashValue(netSize) == IF netSize = "Big" THEN 258 ELSE 259
FTHash(netSize) == IF netSize = "Big" THEN 3 ELSE 5
NetHash(netSize) == IF netSize = "Big" THEN 1027 ELSE 1029

\* Number of sub-networks (buckets) of a size.
LayerStacks == 2

\* sizeof the parameters of a feature transformer and of a sub-network, in bytes.
FTBytes == 1
NetBytes == 1

\* A std::istream: its bytes, the get position and the failbit.
IStream(data) == [data |-> data, pos |-> 0, fail |-> FALSE]

\* The bytes of s from the i-th on / the first n bytes of s.
Drop(s, n) == SubSeq(s, n + 1, Len(s))
Take(s, n) == SubSeq(s, 1, n)

\* write_little_endian<std::uint32_t>: the four bytes of v, least significant first.
U32LE(v) == <<v % 256, (v \div 256) % 256, (v \div 65536) % 256, (v \div 16777216) % 256>>

\* The value of up to four bytes read little-endian into a zeroed integer.
FromLE(b) ==
    (IF Len(b) >= 1 THEN b[1] ELSE 0) + (IF Len(b) >= 2 THEN 256 * b[2] ELSE 0)
      + (IF Len(b) >= 3 THEN 65536 * b[3] ELSE 0)
      + (IF Len(b) >= 4 THEN 16777216 * b[4] ELSE 0)

\* std::istream::read(buf, n): nothing on a failed stream; n bytes when there
\* are that many; else the bytes left, and the failbit.
Read(st, n) ==
    IF st.fail THEN [st |-> st, bytes |-> <<>>]
    ELSE IF st.pos + n <= Len(st.data)
      THEN [st |-> [st EXCEPT !.pos = st.pos + n],
            bytes |-> SubSeq(st.data, st.pos + 1, st.pos + n)]
      ELSE [st |-> [st EXCEPT !.pos = Len(st.data), !.fail = TRUE],
            bytes |-> Drop(st.data, st.pos)]

\* read_le<std::uint32_t>(stream)
read_le(st) == LET r == Read(st, 4) IN [st |-> r.st, v |-> FromLE(r.bytes)]

\* write_le<std::uint32_t>(stream, v) and std::ostream::write on an ostream
\* [data, fail]: nothing on a failed stream.
Write(os, bytes) == IF os.fail THEN os ELSE [os EXCEPT !.data = os.data \o bytes]
write_le(os, v) == Write(os, U32LE(v))

\* The bytes read laid over a buffer: what was not read stays.
Over(bytes, buf) == bytes \o Drop(buf, Len(bytes))

\* Zeros(n): a buffer after std::memset(.., 0, ..).
Zeros(n) == [i \in 1..n |-> 0]

-----------------------------------------------------------------------------
(* Evaluation Blender, evaluate<Net_Size> and the Model Selector *)

\* OutputScale of nnue/nnue_common.h.
OutputScale == 16

\* Eval::SmallNetThreshold and Eval::PsqtOnlyThreshold of evaluate.h.
SmallNetThreshold == 1165
PsqtOnlyThreshold == 2500

Abs(x) == IF x < 0 THEN -x ELSE x

NetSizes == {"Big", "Small"}

\* Faulty variant: the quotient is rounded toward minus infinity.
evaluate_FloorDiv(psqt, positional, delta, adjusted) ==
    IF adjusted
      THEN ((1024 - delta + StrategyMaterialWeight) * psqt
              + (1024 + delta + StrategyPositionalWeight) * positional)
             \div (1024 * OutputScale)
      ELSE (psqt + positional) \div OutputScale

\* Value evaluate(psqt, positional, delta, adjusted)
evaluate(psqt, positional, delta, adjusted) ==
    LET scaleFactor == 1024 * OutputScale
    IN  IF adjusted
          THEN LET materialWeight   == 1024 - delta + StrategyMaterialWeight
                   positionalWeight == 1024 + delta + StrategyPositionalWeight
               IN  CDiv(materialWeight * psqt + positionalWeight * positional, scaleFactor)
          ELSE CDiv(psqt + positional, OutputScale)

NoEval ==
    [op |-> "none", net |-> "Big", psqt |-> 0, netOut |-> 0, positional |-> 0, delta |-> 0,
     adjusted |-> FALSE, psqtOnly |-> FALSE, propagated |-> FALSE,
     wantComplexity |-> FALSE, complexity |-> -1, out |-> 0]

\* A direct call of the blender.
combine(psqt, positional, delta, adjusted) ==
    /\ ev' = [NoEval EXCEPT !.op = "combine", !.psqt = psqt, !.positional = positional,
                            !.delta = delta, !.adjusted = adjusted,
                            !.out = evaluate(psqt, positional, delta, adjusted)]
    /\ UNCHANGED hint

\* Faulty variant: the sub-network runs and the complexity is computed whatever
\* psqtOnly says.
NetResult_IgnorePsqtOnly(psqt, netOut, psqtOnly) ==
    [positional |-> netOut, propagated |-> TRUE,
     complexity |-> CDiv(Abs(psqt - netOut), OutputScale)]

\* The positional contribution and the complexity of evaluate<Net_Size>:
\* psqt is what transform() returns, netOut what propagate() returns when run.
NetResult(psqt, netOut, psqtOnly) ==
    LET positional == IF ~psqtOnly THEN netOut ELSE 0
    IN  [positional |-> positional, propagated |-> ~psqtOnly,
         complexity |-> IF ~psqtOnly THEN CDiv(Abs(psqt - positional), OutputScale) ELSE 0]

\* Value evaluate<Net_Size>(pos, adjusted, complexity, psqtOnly); `complexity`
\* stays -1 when the caller passes no out-parameter.
evaluate_Net(net, psqt, netOut, adjusted, wantComplexity, psqtOnly) ==
    LET delta == 24
        r     == NetResult(psqt, netOut, psqtOnly)
    IN  /\ ev' = [op |-> "evaluate", net |-> net, psqt |-> psqt, netOut |-> netOut,
                  positional |-> r.positional, delta |-> delta, adjusted |-> adjusted,
                  psqtOnly |-> psqtOnly, propagated |-> r.propagated,
                  wantComplexity |-> wantComplexity,
                  complexity |-> IF wantComplexity THEN r.complexity ELSE -1,
                  out |-> evaluate(psqt, r.positional, delta, adjusted)]
        /\ UNCHANGED hint

\* Faulty variant: the thresholds are compared with >=.
SelectModel_Inclusive(simpleEval) ==
    LET simpleEvalAbs == Abs(simpleEval)
    IN  IF simpleEvalAbs >= SmallNetThreshold
          THEN [net |-> "Small", psqtOnly |-> simpleEvalAbs >= PsqtOnlyThreshold]
          ELSE [net |-> "Big", psqtOnly |-> FALSE]

\* The model and the mode hint_common_parent_position picks for a position of
\* simple evaluation simpleEval.
SelectModel(simpleEval) ==
    LET simpleEvalAbs == Abs(simpleEval)
    IN  IF simpleEvalAbs > SmallNetThreshold
          THEN [net |-> "Small", psqtOnly |-> simpleEvalAbs > PsqtOnlyThreshold]
          ELSE [net |-> "Big", psqtOnly |-> FALSE]

\* void hint_common_parent_position(pos)
hint_common_parent_position(simpleEval) ==
    /\ hint' = [called |-> TRUE, simpleEval |-> simpleEval,
                net |-> SelectModel(simpleEval).net,
                psqtOnly |-> SelectModel(simpleEval).psqtOnly]
    /\ UNCHANGED ev

InitEval ==
    /\ ev = NoEval
    /\ hint = [called |-> FALSE, simpleEval |-> 0, net |-> "Big", psqtOnly |-> FALSE]

-----------------------------------------------------------------------------
(* Parameter Store & Serializer: load and save *)

\* The store of a size before the first load: no file name, no description,
\* no buffers allocated. `loaded` is an observer: what the last load of the
\* size returned.
EmptyStore ==
    [fileName |-> "", netDescription |-> [size |-> 0, text |-> <<>>],
     featureTransformer |-> <<>>, network |-> <<>>, loaded |-> FALSE]

\* initialize(netSize): fresh buffers, zeroed.
initialize(s) ==
    [s EXCEPT !.featureTransformer = Zeros(FTBytes),
              !.network = [i \in 1..LayerStacks |-> Zeros(NetBytes)]]

\* read_header(stream, &hashValue, &desc). The description is resized to the
\* size read and filled with the bytes the stream still has: `text` holds
\* those bytes, `size` the length of the string.
read_header(st, desc) ==
    LET version   == read_le(st)
        hashValue == read_le(version.st)
        size      == read_le(hashValue.st)
        text      == Read(size.st, size.v)
    IN  IF size.st.fail \/ version.v # Version
          THEN [ok |-> FALSE, st |-> size.st, hashValue |-> hashValue.v, desc |-> desc]
          ELSE [ok |-> ~text.st.fail, st |-> text.st, hashValue |-> hashValue.v,
                desc |-> [size |-> size.v, text |-> text.bytes]]

\* T::read_parameters(stream) of a feature transformer or a sub-network: n
\* bytes into the buffer; true unless the stream failed.
ReadBuffer(st, n, buf) ==
    LET r == Read(st, n)
    IN  [ok |-> ~r.st.fail, st |-> r.st, buf |-> Over(r.bytes, buf)]

\* Faulty variant: the section hash read is not compared.
Detail_read_parameters_AnyHash(st, hash, n, buf) ==
    LET header == read_le(st)
    IN  IF header.st.fail
          THEN [ok |-> FALSE, st |-> header.st, buf |-> buf]
          ELSE ReadBuffer(header.st, n, buf)

\* Detail::read_parameters(stream, reference), T::get_hash_value() = hash.
Detail_read_parameters(st, hash, n, buf) ==
    LET header == read_le(st)
    IN  IF header.st.fail \/ header.v # hash
          THEN [ok |-> FALSE, st |-> header.st, buf |-> buf]
          ELSE ReadBuffer(header.st, n, buf)

\* The loop of read_parameters over the sub-networks, from the i-th on.
RECURSIVE ReadNetworks(_, _, _, _)
ReadNetworks(st, netSize, network, i) ==
    IF i > LayerStacks THEN [ok |-> TRUE, st |-> st, network |-> network]
    ELSE LET r == Detail_read_parameters(st, NetHash(netSize), NetBytes, network[i])
         IN  IF ~r.ok
               THEN [ok |-> FALSE, st |-> r.st,
                     network |-> [network EXCEPT ![i] = r.buf]]
               ELSE ReadNetworks(r.st, netSize, [network EXCEPT ![i] = r.buf], i + 1)

\* std::istream::peek() == eof on a stream that has not failed.
AtEof(st) == st.pos = Len(st.data)

\* Faulty variant: the end of the stream is not looked at.
ReadFinish_NoPeek(st) == ~st.fail

\* return stream && stream.peek() == std::ios::traits_type::eof();
ReadFinish(st) == ~st.fail /\ AtEof(st)

\* Faulty variant: the header hash is read and dropped.
HeaderHashOk_Unchecked(hashValue, netSize) == TRUE

\* hashValue != HashValue[netSize] rejects.
HeaderHashOk(hashValue, netSize) == hashValue = HashValue(netSize)

\* read_parameters(stream, netSize) on the store s of that size.
read_parameters(st, netSize, s) ==
    LET h  == read_header(st, s.netDescription)
        s1 == [s EXCEPT !.netDescription = h.desc]
    IN  IF ~h.ok THEN [ok |-> FALSE, st |-> h.st, s |-> s1]
        ELSE IF ~HeaderHashOk(h.hashValue, netSize) THEN [ok |-> FALSE, st |-> h.st, s |-> s1]
        ELSE LET ft == Detail_read_parameters(h.st, FTHash(netSize), FTBytes,
                                              s.featureTransformer)
                 s2 == [s1 EXCEPT !.featureTransformer = ft.buf]
             IN  IF ~ft.ok THEN [ok |-> FALSE, st |-> ft.st, s |-> s2]
                 ELSE LET nets == ReadNetworks(ft.st, netSize, s.network, 1)
                          s3   == [s2 EXCEPT !.network = nets.network]
                      IN  [ok |-> nets.ok /\ ReadFinish(nets.st), st |-> nets.st, s |-> s3]

\* Faulty variant: the length of the description is not written.
write_header_NoSize(os, hashValue, desc) ==
    Write(write_le(write_le(os, Version), hashValue), desc.text)

\* write_header(stream, hashValue, desc)
write_header(os, hashValue, desc) ==
    Write(write_le(write_le(write_le(os, Version), hashValue), desc.size), desc.text)

\* Detail::write_parameters(stream, reference): the hash, then the buffer.
Detail_write_parameters(os, hash, buf) == Write(write_le(os, hash), buf)

RECURSIVE WriteNetworks(_, _, _, _)
WriteNetworks(os, netSize, network, i) ==
    IF i > LayerStacks THEN os
    ELSE WriteNetworks(Detail_write_parameters(os, NetHash(netSize), network[i]),
                       netSize, network, i + 1)

\* write_parameters(stream, netSize) on the store s of that size: the stream
\* after the writes; the call returns bool(stream).
write_parameters(os, netSize, s) ==
    LET h == write_header(os, HashValue(netSize), s.netDescription)
    IN  IF h.fail THEN h
        ELSE LET ft == Detail_write_parameters(h, FTHash(netSize), s.featureTransformer)
             IN  IF ft.fail THEN ft ELSE WriteNetworks(ft, netSize, s.network, 1)

\* initialize(netSize); fileName[netSize] = name;
LoadStart(s, name) == [initialize(s) EXCEPT !.fileName = name]

\* bool load_eval(name, stream, netSize) on the stream st: the result of
\* read_parameters after the reset, and the call itself. The stream st is the
\* caller's; what is left of it is LoadResult(..).st.
LoadResult(name, st, netSize) ==
    read_parameters(st, netSize, LoadStart(store[netSize], name))

load_eval(name, st, netSize) ==
    LET r == LoadResult(name, st, netSize)
    IN  /\ store' = [store EXCEPT ![netSize] = [r.s EXCEPT !.loaded = r.ok]]
        /\ io' = [op |-> "load", netSize |-> netSize, name |-> name, data |-> st.data,
                  ok |-> r.ok]
        /\ UNCHANGED <<files, EvalFiles>>

\* bool save_eval(std::ostream& stream, netSize) on an empty output stream
\* that is good or, when bad, has failed already: what the call returns and
\* the bytes it writes.
SaveResult(netSize, bad) ==
    IF store[netSize].fileName = ""
      THEN [ok |-> FALSE, data |-> <<>>, fail |-> bad]
      ELSE LET os == write_parameters([data |-> <<>>, fail |-> bad], netSize, store[netSize])
           IN  [ok |-> ~os.fail, data |-> os.data, fail |-> os.fail]

\* The call on a string stream; what was written can be read back from its
\* start.
save_eval(netSize, bad) ==
    LET r == SaveResult(netSize, bad)
    IN  /\ io' = [op |-> "save", netSize |-> netSize, name |-> "", data |-> r.data,
                  ok |-> r.ok]
        /\ stream' = [data |-> r.data, pos |-> 0, fail |-> r.fail]
        /\ UNCHANGED <<store, files, EvalFiles>>

\* EvalFileDefaultNameBig / EvalFileDefaultNameSmall of evaluate.h.
DefaultName(netSize) == IF netSize = "Big" THEN "nn-big.nnue" ELSE "nn-small.nnue"

\* A file that does not exist: no byte is -1.
NoFile == <<-1>>
NoFilename == [has |-> FALSE, name |-> ""]
Filename(name) == [has |-> TRUE, name |-> name]

\* Faulty variant: without a file name the default name is used whatever
\* network is selected.
RefusesSave_Never(filename, netSize) == FALSE

\* No file name is given and the selected network is not the default one.
RefusesSave(filename, netSize) ==
    ~filename.has /\ EvalFiles[netSize] # DefaultName(netSize)

\* bool save_eval(const std::optional<std::string>& filename, netSize).
\* std::ofstream stream(actualFilename): the file is created or emptied, unless
\* it cannot be opened; the stream has then failed and the file is untouched.
save_file(filename, netSize, openFails) ==
    IF RefusesSave(filename, netSize)
      THEN /\ io' = [op |-> "savefile", netSize |-> netSize, name |-> "", data |-> <<>>,
                      ok |-> FALSE]
           /\ UNCHANGED <<store, stream, files, EvalFiles>>
      ELSE LET actualFilename == IF filename.has THEN filename.name ELSE DefaultName(netSize)
               saved == SaveResult(netSize, openFails)
           IN  /\ files' = IF openFails THEN files
                           ELSE [files EXCEPT ![actualFilename] = saved.data]
               /\ io' = [op |-> "savefile", netSize |-> netSize, name |-> actualFilename,
                         data |-> saved.data, ok |-> saved.ok]
               /\ UNCHANGED <<store, stream, EvalFiles>>

\* The network selected for a size changes (the loader of evaluate.cpp records
\* the name of the file it loaded).
select_name(netSize, name) ==
    /\ EvalFiles[netSize] # name
    /\ EvalFiles' = [EvalFiles EXCEPT ![netSize] = name]
    /\ UNCHANGED <<store, stream, io, files>>

FileNames == {"nn-big.nnue", "nn-small.nnue", "out.nnue"}

InitStore ==
    /\ store = [n \in NetSizes |-> EmptyStore]
    /\ stream = IStream(<<>>)
    /\ io = [op |-> "none", netSize |-> "Big", name |-> "", data |-> <<>>, ok |-> FALSE]
    /\ files = [f \in FileNames |-> NoFile]
    /\ EvalFiles = [n \in NetSizes |-> DefaultName(n)]

-----------------------------------------------------------------------------
(* Engine: searches and reloads of the networks *)

\* Bound of the number of searches started.
MaxSearches == 2

\* The files the EvalFile / EvalFileSmall options name.
NetFiles(netSize) == {DefaultName(netSize), "x.nnue"}

\* What a command does to the networks: nothing, or a load of some sizes.
NoLoad == {}

\* The Engine under construction: pc is the step of the command thread,
\* loading the sizes whose networks a modify_and_replicate is writing,
\* networks the file each size holds, inSearch the networks the running search
\* was started on, searches the number of searches started.
NewEngine ==
    [pc |-> "ctor", searching |-> FALSE, loading |-> NoLoad,
     EvalFile |-> [n \in NetSizes |-> DefaultName(n)],
     networks |-> [n \in NetSizes |-> "None"],
     inSearch |-> [n \in NetSizes |-> "None"],
     threadsSet |-> FALSE, searches |-> 0]

\* Faulty variant: the call returns at once.
wait_for_search_finished_NoWait == TRUE

\* Engine::wait_for_search_finished() returns when no search is running.
wait_for_search_finished == ~engine.searching

\* networks.modify_and_replicate(..) begins to load the given sizes from the
\* files the options name; the command thread is inside the call.
BeginLoad(sizes, next) ==
    engine' = [engine EXCEPT !.loading = sizes, !.pc = next]

\* The networks are written, threads.clear() and
\* threads.ensure_network_replicated() are done; the call returns.
EndLoad(next) ==
    /\ engine.loading # NoLoad
    /\ engine' = [engine EXCEPT
                    !.networks = [n \in NetSizes |->
                                    IF n \in engine.loading THEN engine.EvalFile[n] ELSE @[n]],
                    !.loading = NoLoad, !.pc = next]

\* Engine::Engine: the options are added, then load_networks() ...
Engine_ctor_load == engine.pc = "ctor" /\ BeginLoad(NetSizes, "ctor_loading")
Engine_ctor_loaded == engine.pc = "ctor_loading" /\ EndLoad("ctor_loaded")

\* ... then resize_threads(), which waits for the search to finish first.
Engine_ctor_resize ==
    /\ engine.pc = "ctor_loaded"
    /\ wait_for_search_finished
    /\ engine' = [engine EXCEPT !.threadsSet = TRUE, !.pc = "idle"]

\* Engine::go: verify_networks(), threads.start_thinking(..), which starts a
\* search once the one before has finished.
Engine_go ==
    /\ engine.pc = "idle"
    /\ ~engine.searching
    /\ engine.searches < MaxSearches
    /\ engine' = [engine EXCEPT !.searching = TRUE, !.inSearch = engine.networks,
                                !.searches = @ + 1]

\* The search threads finish the search.
SearchFinished ==
    /\ engine.searching
    /\ engine' = [engine EXCEPT !.searching = FALSE]

\* The command loop on `setoption name EvalFile / EvalFileSmall value file`:
\* it waits for the search to finish, then sets the option, whose callback is
\* load_big_network(file) / load_small_network(file).
uci_setoption_EvalFile(netSize, file) ==
    /\ engine.pc = "idle"
    /\ wait_for_search_finished
    /\ engine' = [engine EXCEPT !.EvalFile[netSize] = file, !.loading = {netSize},
                                !.pc = "loading"]

\* load_big_network / load_small_network return.
load_network_done == engine.pc = "loading" /\ EndLoad("idle")

InitEngine == engine = NewEngine

-----------------------------------------------------------------------------
(* Diagnostic Tracer *)

\* Bound: the squares of the board handed to trace.
TraceSquares == 4

Squares == 1..TraceSquares
NO_PIECE == "-"
Kings == {"K", "k"}
Colors == {"WHITE", "BLACK"}

\* Faulty variant: every occupied square is processed, the kings' too.
RemovesPiece_AnyPiece(pc) == pc # NO_PIECE

\* The test of the square loop: pc != NO_PIECE && type_of(pc) != KING.
RemovesPiece(pc) == pc # NO_PIECE /\ pc \notin Kings

\* An accumulator with no computed flag set, and the accumulator of a state
\* node refreshed for a placement.
NoneComputed == [c \in Colors |-> FALSE]
AllComputed == [c \in Colors |-> TRUE]

\* Faulty variant: the flags are left as they are.
Invalidated_Not(acc) == acc

\* st->accumulatorBig.computed[WHITE] = computed[BLACK] = computedPSQT[WHITE] =
\* computedPSQT[BLACK] = false
Invalidated(acc) == [acc EXCEPT !.computed = NoneComputed, !.computedPSQT = NoneComputed]

\* featureTransformerBig->transform(pos, ...): an accumulator marked computed
\* for both perspectives is reused as it is; otherwise it is recomputed from
\* the placement b and marked computed.
Transformed(acc, b) ==
    IF \A c \in Colors : acc.computed[c]
    THEN acc
    ELSE [computed |-> AllComputed, computedPSQT |-> AllComputed, placement |-> b]

\* The square after sq in the loop, and where the loop goes from there.
NextSquare(t) ==
    [t EXCEPT !.sq = @ + 1, !.pc = IF t.sq + 1 > TraceSquares THEN "table" ELSE "square"]

\* An evaluation of the position by the tracer: the accumulator is brought up
\* to date and the evaluation is made of the placement the accumulator holds.
EvaluateBig(next) ==
    /\ accumulatorBig' = Transformed(accumulatorBig, piece_on)
    /\ tr' = [tr EXCEPT !.pc = next, !.seen = Transformed(accumulatorBig, piece_on).placement,
                        !.mutated = FALSE]
    /\ UNCHANGED piece_on

\* Value base = evaluate<NNUE::Big>(pos)
trace_base == tr.pc = "base" /\ EvaluateBig("square")

\* auto st = pos.state(); pos.remove_piece(sq)
trace_remove_piece ==
    /\ tr.pc = "square"
    /\ RemovesPiece(piece_on[tr.sq])
    /\ piece_on' = [piece_on EXCEPT ![tr.sq] = NO_PIECE]
    /\ tr' = [tr EXCEPT !.pc = "removed", !.piece = piece_on[tr.sq], !.mutated = TRUE,
                        !.removals = @ + 1]
    /\ UNCHANGED accumulatorBig

\* The four flags cleared after remove_piece.
trace_invalidate_removed ==
    /\ tr.pc = "removed"
    /\ accumulatorBig' = Invalidated(accumulatorBig)
    /\ tr' = [tr EXCEPT !.pc = "eval"]
    /\ UNCHANGED piece_on

\* Value eval = evaluate<NNUE::Big>(pos); v = base - eval
trace_eval == tr.pc = "eval" /\ EvaluateBig("put")

\* pos.put_piece(pc, sq)
trace_put_piece ==
    /\ tr.pc = "put"
    /\ piece_on' = [piece_on EXCEPT ![tr.sq] = tr.piece]
    /\ tr' = [tr EXCEPT !.pc = "restored", !.mutated = TRUE]
    /\ UNCHANGED accumulatorBig

\* The four flags cleared after put_piece; writeSquare; the next square.
trace_invalidate_restored ==
    /\ tr.pc = "restored"
    /\ accumulatorBig' = Invalidated(accumulatorBig)
    /\ tr' = [NextSquare(tr) EXCEPT !.piece = NO_PIECE]
    /\ UNCHANGED piece_on

\* A square that is empty or holds a king: writeSquare; the next square.
trace_skip_square ==
    /\ tr.pc = "square"
    /\ ~RemovesPiece(piece_on[tr.sq])
    /\ tr' = NextSquare(tr)
    /\ UNCHANGED <<piece_on, accumulatorBig>>

\* auto t = trace_evaluate(pos); the table; return ss.str()
trace_table == tr.pc = "table" /\ EvaluateBig("done")

\* The placement trace is called with, before its first statement.
EmptyBoard == [sq \in Squares |-> IF sq = 1 THEN "K" ELSE IF sq = 2 THEN "k" ELSE NO_PIECE]

\* trace is entered on placement b with accumulator acc.
TraceEntered(b, acc) ==
    /\ piece_on = b
    /\ accumulatorBig = acc
    /\ tr = [pc |-> "base", sq |-> 1, piece |-> NO_PIECE, seen |-> b, mutated |-> FALSE,
             removals |-> 0, before |-> b]

InitTrace ==
    TraceEntered(EmptyBoard,
                 [computed |-> NoneComputed, computedPSQT |-> NoneComputed,
                  placement |-> EmptyBoard])

-----------------------------------------------------------------------------
(* Material bucket *)

\* PSQTBuckets of nnue/nnue_feature_transformer.h, which the static_assert of
\* NnueEvalTrace equates with LayerStacks: the number of buckets of the full
\* architecture.
PSQTBuckets == 8

\* Faulty variant: the piece count is divided as it is.
evaluate_bucket_NoMinusOne(count) == CDiv(count, 4)

\* const int bucket = (pos.count<ALL_PIECES>() - 1) / 4 of evaluate<Net_Size>.
evaluate_bucket(count) == CDiv(count - 1, 4)

\* t.correctBucket = (pos.count<ALL_PIECES>() - 1) / 4 of trace_evaluate.
correctBucket(count) == CDiv(count - 1, 4)

\* The rows of the bucket table of trace that carry "<-- this bucket is used".
MarkedBuckets(count) == {bucket \in 0..(PSQTBuckets - 1) : bucket = correctBucket(count)}

\* trace(pos) on a position of `count` pieces: the bucket of its base
\* evaluation and the rows its table marks; the previous position is kept.
trace_buckets(count) ==
    buckets' = [count |-> count, used |-> evaluate_bucket(count),
                marked |-> MarkedBuckets(count),
                prevCount |-> buckets.count, prevUsed |-> buckets.used]

InitBuckets ==
    buckets = [count |-> 0, used |-> -1, marked |-> {}, prevCount |-> 0, prevUsed |-> -1]

-----------------------------------------------------------------------------
(* The two stores of commit_strategy_weights and the two loads of evaluate *)

InitialWeights == <<0, 0>>

Fields == {"material", "positional"}

OtherField(f) == IF f = "material" THEN "positional" ELSE "material"

NotCommitting == [pc |-> "idle", pair |-> InitialWeights, first |-> "material"]

NotReading ==
    [pc |-> "idle", t |-> MainThread, first |-> "material",
     material |-> 0, positional |-> 0, out |-> 0]

\* Faulty variant: both stores take the material argument.
StoreWeight_MaterialTwice(f, pair) ==
    /\ StrategyMaterialWeight' =
           IF f = "material" THEN pair[1] ELSE StrategyMaterialWeight
    /\ StrategyPositionalWeight' =
           IF f = "positional" THEN pair[1] ELSE StrategyPositionalWeight

\* One of the two assignments `StrategyMaterialWeight = materialW;` and
\* `StrategyPositionalWeight = positionalW;`.
StoreWeight(f, pair) ==
    /\ StrategyMaterialWeight' =
           IF f = "material" THEN pair[1] ELSE StrategyMaterialWeight
    /\ StrategyPositionalWeight' =
           IF f = "positional" THEN pair[2] ELSE StrategyPositionalWeight

\* commit_strategy_weights(materialW, positionalW) of thread t up to its first
\* store. The two weights are plain ints written without synchronization, so
\* the order in which another thread sees the two stores is not fixed: f is the
\* store that becomes visible first.
commit_first_store(t, pair, f) ==
    /\ committing[t].pc = "idle"
    /\ ~(reading.pc = "first" /\ reading.t = t)
    /\ IF CommitDedup(t, pair)
       THEN UNCHANGED <<StrategyMaterialWeight, StrategyPositionalWeight,
                        committing, written>>
       ELSE /\ StoreWeight(f, pair)
            /\ committing' = [committing EXCEPT ![t] =
                                [pc |-> "stored", pair |-> pair, first |-> f]]
            /\ written' = written \cup {pair}
    /\ UNCHANGED <<gLastCommitted, reading>>

\* The rest of commit_strategy_weights: the other store, then the thread's
\* last committed pair.
commit_second_store(t) ==
    /\ committing[t].pc = "stored"
    /\ StoreWeight(OtherField(committing[t].first), committing[t].pair)
    /\ gLastCommitted' = [gLastCommitted EXCEPT ![TLS(t)] = committing[t].pair]
    /\ committing' = [committing EXCEPT ![t] = NotCommitting]
    /\ UNCHANGED <<reading, written>>

LoadWeight(f) ==
    IF f = "material" THEN StrategyMaterialWeight ELSE StrategyPositionalWeight

\* The adjusted branch of evaluate on the two weights it has read.
evaluate_adjusted(materialW, positionalW, psqt, positional, delta) ==
    LET materialWeight   == 1024 - delta + materialW
        positionalWeight == 1024 + delta + positionalW
    IN  CDiv(materialWeight * psqt + positionalWeight * positional, 1024 * OutputScale)

\* evaluate(psqt, positional, delta, true) of thread t up to its first read of
\* a Strategy weight; f is the weight read first.
evaluate_first_load(t, f) ==
    /\ reading.pc # "first"
    /\ committing[t].pc = "idle"
    /\ reading' = [NotReading EXCEPT !.pc = "first", !.t = t, !.first = f,
                                     ![f] = LoadWeight(f)]
    /\ UNCHANGED <<StrategyMaterialWeight, StrategyPositionalWeight,
                   gLastCommitted, committing, written>>

\* The rest of evaluate: the other read and the weighted quotient.
evaluate_second_load(psqt, positional, delta) ==
    /\ reading.pc = "first"
    /\ LET g == OtherField(reading.first)
           r == [reading EXCEPT ![g] = LoadWeight(g)]
       IN  reading' = [r EXCEPT !.pc = "done",
                                !.out = evaluate_adjusted(r.material, r.positional,
                                                          psqt, positional, delta)]
    /\ UNCHANGED <<StrategyMaterialWeight, StrategyPositionalWeight,
                   gLastCommitted, committing, written>>

InitRace ==
    /\ committing = [t \in Threads |-> NotCommitting]
    /\ reading = NotReading
    /\ written = {}

-----------------------------------------------------------------------------
(* Engine: the thread pool, the transposition table and the search state *)

\* The options start at their defaults: NumaPolicy auto, Hash 16. The three
\* counters (modulo 2) observe threads.set, tt.resize and the clears; inSearch
\* observes whether a search ran when the operation was called.
NewPool ==
    [numa |-> "auto", threadsNuma |-> "auto", Hash |-> 16, tt |-> 16,
     sets |-> 0, resizes |-> 0, clears |-> 0, inSearch |-> FALSE]

\* Faulty variant: the call returns at once.
ThreadPool_wait_for_search_finished_NoWait == TRUE

\* threads.wait_for_search_finished() returns when no search is running.
ThreadPool_wait_for_search_finished == ~engine.searching

\* The command thread enters an operation of the Engine.
EngineCall(op) ==
    /\ engine.pc = "idle"
    /\ engine' = [engine EXCEPT !.pc = op]

\* Engine::search_clear() is called ...
Engine_search_clear_call ==
    /\ EngineCall("search_clear")
    /\ pool' = [pool EXCEPT !.inSearch = engine.searching]

\* ... waits, then tt.clear(threads), threads.clear(), Tablebases::init(..).
Engine_search_clear ==
    /\ engine.pc = "search_clear"
    /\ wait_for_search_finished
    /\ pool' = [pool EXCEPT !.clears = 1 - @]
    /\ engine' = [engine EXCEPT !.pc = "idle"]

\* The Hash option is set; its callback is Engine::set_tt_size(o) ...
uci_setoption_Hash(mb) ==
    /\ EngineCall("set_tt_size")
    /\ pool' = [pool EXCEPT !.Hash = mb, !.inSearch = engine.searching]

\* ... which waits, then tt.resize(mb, threads); next is where the caller goes on.
Engine_set_tt_size(at, next) ==
    /\ engine.pc = at
    /\ wait_for_search_finished
    /\ pool' = [pool EXCEPT !.tt = pool.Hash, !.resizes = 1 - @]
    /\ engine' = [engine EXCEPT !.pc = next]

\* Engine::resize_threads() is called (the callback of the Threads option) ...
Engine_resize_threads_call ==
    /\ EngineCall("resize_threads")
    /\ pool' = [pool EXCEPT !.inSearch = engine.searching]

\* ... waits, then threads.set(numaContext.get_numa_config(), ..) ...
Engine_resize_threads_set ==
    /\ engine.pc = "resize_threads"
    /\ ThreadPool_wait_for_search_finished
    /\ pool' = [pool EXCEPT !.threadsNuma = pool.numa, !.sets = 1 - @]
    /\ engine' = [engine EXCEPT !.pc = "resize_threads_tt"]

\* ... then set_tt_size(options["Hash"]) and threads.ensure_network_replicated().
Engine_resize_threads_tt == Engine_set_tt_size("resize_threads_tt", "idle")

\* Engine::set_numa_config_from_option(o): numaContext.set_numa_config(..)
\* at once, then resize_threads().
Engine_set_numa_config_from_option(o) ==
    /\ EngineCall("resize_threads")
    /\ pool' = [pool EXCEPT !.numa = o, !.inSearch = engine.searching]

InitPool == pool = NewPool

-----------------------------------------------------------------------------
(* Engine::set_position *)

\* The state list is a sequence with one entry for the root position and one
\* entry per move made; the entry is named after what produced it.
StartFEN == "startpos"

Move_none == "none"

WhiteMoves == {"e2e4"}
BlackMoves == {"e7e5"}

\* UCIEngine::to_move(pos, str): the move of that name among the legal moves
\* of the position, or Move::none(). White is to move at the root, so the
\* side to move after st is white when st has an odd number of entries.
to_move(st, str) ==
    IF str \in (IF Len(st) % 2 = 1 THEN WhiteMoves ELSE BlackMoves) THEN str ELSE Move_none

RECURSIVE set_position_moves_Continue(_, _)
\* Faulty variant: a move that does not convert is skipped and the loop goes on.
set_position_moves_Continue(st, moves) ==
    IF moves = <<>> THEN st
    ELSE LET m == to_move(st, Head(moves))
         IN  IF m = Move_none THEN set_position_moves_Continue(st, Tail(moves))
             ELSE set_position_moves_Continue(Append(st, m), Tail(moves))

RECURSIVE set_position_moves(_, _)
\* The loop of set_position over the moves, on the state list st.
set_position_moves(st, moves) ==
    IF moves = <<>> THEN st
    ELSE LET m == to_move(st, Head(moves))
         IN  IF m = Move_none THEN st
             ELSE set_position_moves(Append(st, m), Tail(moves))

\* void Engine::set_position(const std::string& fen, const std::vector<std::string>& moves)
Engine_set_position(fen, moves) ==
    position' = [states |-> set_position_moves(<<fen>>, moves), moves |-> moves]

\* Engine::Engine: states(new std::deque<StateInfo>(1)), pos.set(StartFEN, ..).
InitPosition == position = [states |-> <<StartFEN>>, moves |-> <<>>]

-----------------------------------------------------------------------------
(* Dynamic parameters: DynParams g_dyn, its setters and dyn_snapshot *)

\* The members of DynParams in the order of their declaration.
DynFields == <<"open_mat", "open_pos", "end_mat", "end_pos", "complexity">>

NewDynParams ==
    [open_mat |-> 0, open_pos |-> 0, end_mat |-> 0, end_pos |-> 0, complexity |-> 10]

\* Faulty variant: only the lower limit is applied.
clamp16_LowerOnly(v) == IF v < -16 THEN -16 ELSE v

\* static inline int clamp16(int v) { return std::max(-16, std::min(16, v)); }
clamp16(v) ==
    LET m == IF 16 < v THEN 16 ELSE v
    IN  IF -16 < m THEN m ELSE -16

\* static inline int clamp50(int v) { return std::max(0, std::min(50, v)); }
clamp50(v) ==
    LET m == IF 50 < v THEN 50 ELSE v
    IN  IF 0 < m THEN m ELSE 0

\* member.store(value, std::memory_order_relaxed) on g_dyn. A store made while
\* a dyn_snapshot is in progress adds what g_dyn then holds to what the
\* snapshot's observer has seen.
dyn_store(field, value, v) ==
    /\ g_dyn' = [g_dyn EXCEPT ![field] = value]
    /\ dynCall' = [field |-> field, arg |-> v]
    /\ snap' = IF snap.loaded \in 1..4
               THEN [snap EXCEPT !.seen = @ \cup {g_dyn'}, !.stores = @ + 1]
               ELSE snap

set_dyn_open_mat(v) == dyn_store("open_mat", clamp16(v), v)
set_dyn_open_pos(v) == dyn_store("open_pos", clamp16(v), v)
set_dyn_end_mat(v) == dyn_store("end_mat", clamp16(v), v)
set_dyn_end_pos(v) == dyn_store("end_pos", clamp16(v), v)
set_dyn_complexity(v) == dyn_store("complexity", clamp50(v), v)

NoSnapshot == [loaded |-> 0, val |-> NewDynParams, seen |-> {}, stores |-> 0]

\* One load of dyn_snapshot(): the five members are loaded one after the
\* other, each with memory_order_relaxed; the call begins with its first load
\* and returns val after its fifth.
dyn_snapshot_load ==
    LET i == IF snap.loaded = 5 THEN 1 ELSE snap.loaded + 1
        f == DynFields[i]
    IN  /\ snap' = IF i = 1
                   THEN [NoSnapshot EXCEPT !.loaded = 1, !.val[f] = g_dyn[f],
                                           !.seen = {g_dyn}]
                   ELSE [snap EXCEPT !.loaded = i, !.val[f] = g_dyn[f]]
        /\ UNCHANGED <<g_dyn, dynCall>>

InitDyn ==
    /\ g_dyn = NewDynParams
    /\ dynCall = [field |-> "none", arg |-> 0]
    /\ snap = NoSnapshot

InitLate == InitRace /\ InitPool /\ InitPosition /\ InitDyn

InitExt == InitEval /\ InitStore /\ InitEngine /\ InitTrace /\ InitBuckets /\ InitLate

Init == InitPhase /\ InitBlend /\ InitNorm /\ InitExt

-----------------------------------------------------------------------------
(* The Phase Detector driven directly, on one thread *)

PhaseCall ==
    /\ \E k \in Keys : determine_dynamic_phase(MainThread, k)
    /\ UNCHANGED <<blendVars, normVars, extVars>>

NextPhase == PhaseCall

SpecPhase == Init /\ [][NextPhase]_vars

-----------------------------------------------------------------------------
(* The Style Blend Engine on one thread, under every setting of the        *)
(* configuration toggles                                                   *)

BlendCall ==
    /\ \E k \in Keys, w \in InWeights : update_weights_with_blend(MainThread, k, w)
    /\ UNCHANGED <<normVars, extVars>>

SetOption ==
    /\ \E name \in {"style", "ManualWeights", "DynamicWeights"}, value \in BOOLEAN :
          set_option(name, value)
    /\ UNCHANGED <<normVars, extVars>>

Next == BlendCall \/ SetOption

Spec == Init /\ [][Next]_vars

-----------------------------------------------------------------------------
(* The writers of the Strategy weights, on one thread                      *)

ApplyBlendCall ==
    /\ \E w \in InWeights : apply_dynamic_blend(w)
    /\ UNCHANGED <<normVars, extVars>>

AdjustCall ==
    /\ \E style \in Styles : adjust_nnue_for_style(style)
    /\ UNCHANGED <<normVars, extVars>>

NextWriters == BlendCall \/ ApplyBlendCall \/ AdjustCall

SpecWriters == Init /\ [][NextWriters]_vars

-----------------------------------------------------------------------------
(* Two evaluation threads that share the Strategy weights                  *)

\* The in/out weights the threads pass.
SharedWeights == <<0, 0, 0>>

SharedBlendCall ==
    /\ \E t \in Threads, k \in Keys : update_weights_with_blend(t, k, SharedWeights)
    /\ UNCHANGED <<normVars, extVars>>

NextShared == SharedBlendCall

SpecShared == Init /\ [][NextShared]_vars

-----------------------------------------------------------------------------
(* Step 5 of update_weights_with_blend alone, on every triple of a range   *)

\* Bound of the range of weights normalised.
NormMax == 8

NormRange == (-1..NormMax) \cup {100, 101}

InitNormalize ==
    /\ InitPhase /\ InitBlend /\ InitExt
    /\ normIn \in NormRange \X NormRange \X NormRange
    /\ normOut = <<>>

NormalizeStep ==
    /\ normOut = <<>>
    /\ normOut' = Normalize(normIn)
    /\ UNCHANGED <<phaseVars, blendVars, normIn, extVars>>

NextNorm == NormalizeStep

SpecNorm == InitNormalize /\ [][NextNorm]_vars

-----------------------------------------------------------------------------
(* Evaluation calls on one thread, while the Strategy weights change       *)

\* What transform() and propagate() return for the positions evaluated.
PsqtValues == {-17, 100}
NetValues == {-40, 0, 100}
Deltas == {0, 24}

\* The simple evaluations of the positions hinted: at and beyond both
\* thresholds, for both colours.
SimpleEvals ==
    {-SmallNetThreshold, SmallNetThreshold + 1, PsqtOnlyThreshold, -(PsqtOnlyThreshold + 1)}

CombineCall ==
    /\ \E psqt \in PsqtValues, positional \in NetValues, delta \in Deltas,
          adjusted \in BOOLEAN : combine(psqt, positional, delta, adjusted)
    /\ UNCHANGED <<phaseVars, blendVars, normVars, storeVars, engineVars, tailVars>>

EvaluateNetCall ==
    /\ \E net \in NetSizes, psqt \in PsqtValues, netOut \in NetValues,
          adjusted \in BOOLEAN, wantComplexity \in BOOLEAN, psqtOnly \in BOOLEAN :
          evaluate_Net(net, psqt, netOut, adjusted, wantComplexity, psqtOnly)
    /\ UNCHANGED <<phaseVars, blendVars, normVars, storeVars, engineVars, tailVars>>

HintCall ==
    /\ \E simpleEval \in SimpleEvals : hint_common_parent_position(simpleEval)
    /\ UNCHANGED <<phaseVars, blendVars, normVars, storeVars, engineVars, tailVars>>

NextEval == CombineCall \/ EvaluateNetCall \/ HintCall \/ AdjustCall

SpecEval == Init /\ [][NextEval]_vars

-----------------------------------------------------------------------------
(* The Style Blend Engine on every position of the corpus, with adjusted   *)
(* evaluations in between                                                  *)

AllKeys == 1..Len(Boards)

StyleBlendCall ==
    /\ \E k \in AllKeys : update_weights_with_blend(MainThread, k, SharedWeights)
    /\ UNCHANGED <<normVars, extVars>>

AdjustedEvaluateCall ==
    /\ \E psqt \in PsqtValues :
          evaluate_Net("Big", psqt, 100, TRUE, FALSE, FALSE)
    /\ UNCHANGED <<phaseVars, blendVars, normVars, storeVars, engineVars, tailVars>>

NextStyle == StyleBlendCall \/ AdjustCall \/ AdjustedEvaluateCall

SpecStyle == Init /\ [][NextStyle]_vars

-----------------------------------------------------------------------------
(* Loads and saves of the Parameter Store from the streams of a corpus     *)

\* The file names a load is given: the value of the EvalFile option or the
\* default name, never the empty string.
Names == {"nn.nnue", "x.nnue"}

\* The sections of a parameter file, from the i-th sub-network on.
RECURSIVE Sections(_, _, _)
Sections(netSize, network, i) ==
    IF i > LayerStacks THEN <<>>
    ELSE U32LE(NetHash(netSize)) \o network[i] \o Sections(netSize, network, i + 1)

\* The parameter file of a size, as the file format lays it out.
Format(netSize, desc, featureTransformer, network) ==
    U32LE(Version) \o U32LE(HashValue(netSize)) \o U32LE(Len(desc)) \o desc
      \o U32LE(FTHash(netSize)) \o featureTransformer \o Sections(netSize, network, 1)

\* The parameters of the networks of the corpus: every byte is p or more.
FTParams(p) == [i \in 1..FTBytes |-> p]
NetParams(p) == [b \in 1..LayerStacks |-> [i \in 1..NetBytes |-> p + b]]

ValidStream(netSize, desc, p) == Format(netSize, desc, FTParams(p), NetParams(p))

\* A file cut short, a file with one more byte, a file with one byte changed.
Truncations(d) == {Take(d, n) : n \in 0..(Len(d) - 1)}
Extended(d) == Append(d, 0)
Altered(d) == {[d EXCEPT ![i] = (d[i] + 1) % 256] : i \in 1..Len(d)}

RefBig == ValidStream("Big", <<7>>, 1)
RefSmall == ValidStream("Small", <<7>>, 1)

Streams ==
    {RefBig, RefSmall, ValidStream("Big", <<>>, 4), Extended(RefBig), Extended(RefSmall),
     Take(RefSmall, Len(RefSmall) - 1), [RefSmall EXCEPT ![1] = 0]}
      \cup Truncations(RefBig) \cup Altered(RefBig)

\* A caller opens one of the files and loads it; the stream is the caller's
\* own and is gone after the call.
LoadFile ==
    /\ \E d \in Streams, name \in {"nn.nnue"}, netSize \in NetSizes :
          load_eval(name, IStream(d), netSize)
    /\ UNCHANGED stream
    /\ UNCHANGED <<phaseVars, blendVars, normVars, evalVars, engineVars, tailVars>>

NextStore == LoadFile

SpecStore == Init /\ [][NextStore]_vars

-----------------------------------------------------------------------------
(* Loads, saves to a string stream and loads of what was saved             *)

ValidStreams ==
    {RefBig, RefSmall, ValidStream("Big", <<>>, 4), ValidStream("Small", <<8, 9>>, 2)}

LoadValid ==
    /\ \E d \in ValidStreams, name \in Names, netSize \in NetSizes :
          load_eval(name, IStream(d), netSize)
    /\ UNCHANGED stream
    /\ UNCHANGED <<phaseVars, blendVars, normVars, evalVars, engineVars, tailVars>>

SaveCall ==
    /\ \E netSize \in NetSizes, bad \in BOOLEAN : save_eval(netSize, bad)
    /\ UNCHANGED <<phaseVars, blendVars, normVars, evalVars, engineVars, tailVars>>

\* The stream last saved to is read back from where its get position is.
LoadBack ==
    /\ \E name \in Names, netSize \in NetSizes :
          /\ load_eval(name, stream, netSize)
          /\ stream' = LoadResult(name, stream, netSize).st
    /\ UNCHANGED <<phaseVars, blendVars, normVars, evalVars, engineVars, tailVars>>

NextRoundTrip == LoadValid \/ SaveCall \/ LoadBack

SpecRoundTrip == Init /\ [][NextRoundTrip]_vars

-----------------------------------------------------------------------------
(* Saves to files                                                           *)

\* The file of the corpus that holds the parameters of a size.
RefStream(netSize) == IF netSize = "Big" THEN RefBig ELSE RefSmall

LoadRef ==
    /\ \E netSize \in NetSizes : load_eval("nn.nnue", IStream(RefStream(netSize)), netSize)
    /\ UNCHANGED stream
    /\ UNCHANGED <<phaseVars, blendVars, normVars, evalVars, engineVars, tailVars>>

SelectName ==
    /\ \E netSize \in NetSizes :
          \E name \in {DefaultName(netSize), "x.nnue"} : select_name(netSize, name)
    /\ UNCHANGED <<phaseVars, blendVars, normVars, evalVars, engineVars, tailVars>>

OptFilenames == {NoFilename, Filename("out.nnue"), Filename("nn-big.nnue")}

SaveFile ==
    /\ \E filename \in OptFilenames, netSize \in NetSizes, openFails \in BOOLEAN :
          save_file(filename, netSize, openFails)
    /\ UNCHANGED <<phaseVars, blendVars, normVars, evalVars, engineVars, tailVars>>

NextSaveFile == LoadRef \/ SelectName \/ SaveFile

SpecSaveFile == Init /\ [][NextSaveFile]_vars

-----------------------------------------------------------------------------
(* The Engine under the commands of the command loop                       *)

EngineConstruct ==
    /\ Engine_ctor_load \/ Engine_ctor_loaded \/ Engine_ctor_resize
    /\ UNCHANGED <<phaseVars, blendVars, normVars, evalVars, storeVars, tailVars>>

Go ==
    /\ Engine_go
    /\ UNCHANGED <<phaseVars, blendVars, normVars, evalVars, storeVars, tailVars>>

Finish ==
    /\ SearchFinished
    /\ UNCHANGED <<phaseVars, blendVars, normVars, evalVars, storeVars, tailVars>>

SetEvalFile ==
    /\ \E netSize \in NetSizes : \E file \in NetFiles(netSize) :
          uci_setoption_EvalFile(netSize, file)
    /\ UNCHANGED <<phaseVars, blendVars, normVars, evalVars, storeVars, tailVars>>

LoadDone ==
    /\ load_network_done
    /\ UNCHANGED <<phaseVars, blendVars, normVars, evalVars, storeVars, tailVars>>

NextEngine == EngineConstruct \/ Go \/ Finish \/ SetEvalFile \/ LoadDone

SpecEngine == Init /\ [][NextEngine]_vars

-----------------------------------------------------------------------------
(* A call of trace, statement by statement, on every small placement       *)

\* The non-king pieces placed.
TracePieces == {"P", "n"}

\* The placements: one king of each colour, the other squares empty or
\* holding a pawn or a knight.
Placements ==
    {b \in [Squares -> Kings \cup TracePieces \cup {NO_PIECE}] :
        /\ Cardinality({sq \in Squares : b[sq] = "K"}) = 1
        /\ Cardinality({sq \in Squares : b[sq] = "k"}) = 1}

\* The accumulator of the state node at the call: not computed, or computed by
\* the search for the placement of the call.
EntryAccumulators(b) ==
    {[computed |-> NoneComputed, computedPSQT |-> NoneComputed, placement |-> b],
     [computed |-> AllComputed, computedPSQT |-> AllComputed, placement |-> b]}

InitTraceCall ==
    /\ InitPhase /\ InitBlend /\ InitNorm /\ InitEval /\ InitStore /\ InitEngine
    /\ InitBuckets /\ InitLate
    /\ \E b \in Placements : \E acc \in EntryAccumulators(b) : TraceEntered(b, acc)

\* What a statement of trace leaves alone.
TraceFrame ==
    UNCHANGED <<phaseVars, blendVars, normVars, evalVars, storeVars, engineVars, buckets,
                lateVars>>

TraceBase == trace_base /\ TraceFrame
TraceRemove == trace_remove_piece /\ TraceFrame
TraceInvalidateRemoved == trace_invalidate_removed /\ TraceFrame
TraceEval == trace_eval /\ TraceFrame
TracePut == trace_put_piece /\ TraceFrame
TraceInvalidateRestored == trace_invalidate_restored /\ TraceFrame
TraceSkip == trace_skip_square /\ TraceFrame
TraceTable == trace_table /\ TraceFrame

NextTrace ==
    \/ TraceBase \/ TraceRemove \/ TraceInvalidateRemoved \/ TraceEval
    \/ TracePut \/ TraceInvalidateRestored \/ TraceSkip \/ TraceTable

SpecTrace == InitTraceCall /\ [][NextTrace]_vars

-----------------------------------------------------------------------------
(* The material buckets of positions of every piece count                  *)

\* From the two kings alone to the full board.
PieceCounts == 2..32

BucketCall ==
    /\ \E count \in PieceCounts : trace_buckets(count)
    /\ UNCHANGED <<phaseVars, blendVars, normVars, evalVars, storeVars, engineVars,
                   piece_on, accumulatorBig, tr, lateVars>>

NextBucket == BucketCall

SpecBucket == Init /\ [][NextBucket]_vars

-----------------------------------------------------------------------------
(* Two threads commit Strategy weights while a thread evaluates *)

\* The pairs update_weights hands to commit_strategy_weights for the first
\* position at the three phases.
CommitArgs == {PhaseWeights(phase, MixedWeights(1, phase, SharedWeights)) : phase \in 0..2}

\* What the commit and the evaluation leave alone.
RaceFrame ==
    UNCHANGED <<phaseVars, gBlendCache, lastSeen, Options, call, solo, normVars,
                evalVars, storeVars, engineVars, traceVars, poolVars, positionVars,
                dynVars>>

CommitFirstStore ==
    /\ \E t \in Threads : \E pair \in CommitArgs : \E f \in Fields :
          commit_first_store(t, pair, f)
    /\ RaceFrame

CommitSecondStore ==
    /\ \E t \in Threads : commit_second_store(t)
    /\ RaceFrame

EvaluateFirstLoad ==
    /\ \E t \in Threads : \E f \in Fields : evaluate_first_load(t, f)
    /\ RaceFrame

EvaluateSecondLoad ==
    /\ evaluate_second_load(1600, 1600, 24)
    /\ RaceFrame

NextTorn == CommitFirstStore \/ CommitSecondStore \/ EvaluateFirstLoad \/ EvaluateSecondLoad

SpecTorn == Init /\ [][NextTorn]_vars

-----------------------------------------------------------------------------
(* The Engine is constructed, searches, and is reconfigured between and during searches *)

HashSizes == {16, 32}

NumaOptions == {"auto", "none"}

\* What an operation of the Engine on its pool leaves alone.
PoolFrame ==
    UNCHANGED <<phaseVars, blendVars, normVars, evalVars, storeVars, traceVars, raceVars,
                positionVars, dynVars>>

PoolConstruct ==
    /\ Engine_ctor_load \/ Engine_ctor_loaded \/ Engine_ctor_resize
    /\ UNCHANGED pool /\ PoolFrame

PoolGo == Engine_go /\ UNCHANGED pool /\ PoolFrame

PoolFinish == SearchFinished /\ UNCHANGED pool /\ PoolFrame

SearchClearCall == Engine_search_clear_call /\ PoolFrame

SearchClear == Engine_search_clear /\ PoolFrame

SetHash == (\E mb \in HashSizes : uci_setoption_Hash(mb)) /\ PoolFrame

SetTTSize == Engine_set_tt_size("set_tt_size", "idle") /\ PoolFrame

ResizeThreadsCall == Engine_resize_threads_call /\ PoolFrame

ResizeThreadsSet == Engine_resize_threads_set /\ PoolFrame

ResizeThreadsTT == Engine_resize_threads_tt /\ PoolFrame

SetNumaConfig == (\E o \in NumaOptions : Engine_set_numa_config_from_option(o)) /\ PoolFrame

NextPool ==
    \/ PoolConstruct \/ PoolGo \/ PoolFinish
    \/ SearchClearCall \/ SearchClear
    \/ SetHash \/ SetTTSize
    \/ ResizeThreadsCall \/ ResizeThreadsSet \/ ResizeThreadsTT
    \/ SetNumaConfig

SpecPool == Init /\ [][NextPool]_vars

-----------------------------------------------------------------------------
(* The command thread sets the position *)

\* Bound: the longest list of moves given to set_position.
MaxMoves == 4

MoveStrings == WhiteMoves \cup BlackMoves \cup {"0000"}

MoveLists == UNION {[1..n -> MoveStrings] : n \in 0..MaxMoves}

SetPosition ==
    /\ \E moves \in MoveLists : Engine_set_position(StartFEN, moves)
    /\ UNCHANGED <<phaseVars, blendVars, normVars, evalVars, storeVars, engineVars,
                   traceVars, raceVars, poolVars, dynVars>>

NextPosition == SetPosition

SpecPosition == Init /\ [][NextPosition]_vars

-----------------------------------------------------------------------------
(* Threads call the setters of the dynamic parameters *)

INT_MIN == -2147483647 - 1
INT_MAX == 2147483647

SetterArgs == {INT_MIN, -17, -16, 0, 16, 17, 50, 51, INT_MAX}

\* What the setters and dyn_snapshot leave alone.
DynFrame ==
    UNCHANGED <<phaseVars, blendVars, normVars, evalVars, storeVars, engineVars,
                traceVars, raceVars, poolVars, positionVars>>

SetOpenMat == (\E v \in SetterArgs : set_dyn_open_mat(v)) /\ DynFrame
SetOpenPos == (\E v \in SetterArgs : set_dyn_open_pos(v)) /\ DynFrame
SetEndMat == (\E v \in SetterArgs : set_dyn_end_mat(v)) /\ DynFrame
SetEndPos == (\E v \in SetterArgs : set_dyn_end_pos(v)) /\ DynFrame
SetComplexity == (\E v \in SetterArgs : set_dyn_complexity(v)) /\ DynFrame

NextDyn == SetOpenMat \/ SetOpenPos \/ SetEndMat \/ SetEndPos \/ SetComplexity

SpecDyn == Init /\ [][NextDyn]_vars

-----------------------------------------------------------------------------
(* A thread takes a snapshot of the dynamic parameters while others set them *)

\* Bound: the setter calls that complete while one dyn_snapshot is in progress.
MaxStores == 2

SnapshotArgs == {16, 51}

StoresAllowed == snap.loaded \in 1..4 => snap.stores < MaxStores

SnapSetOpenMat ==
    StoresAllowed /\ (\E v \in SnapshotArgs : set_dyn_open_mat(v)) /\ DynFrame
SnapSetOpenPos ==
    StoresAllowed /\ (\E v \in SnapshotArgs : set_dyn_open_pos(v)) /\ DynFrame
SnapSetEndMat ==
    StoresAllowed /\ (\E v \in SnapshotArgs : set_dyn_end_mat(v)) /\ DynFrame
SnapSetEndPos ==
    StoresAllowed /\ (\E v \in SnapshotArgs : set_dyn_end_pos(v)) /\ DynFrame
SnapSetComplexity ==
    StoresAllowed /\ (\E v \in SnapshotArgs : set_dyn_complexity(v)) /\ DynFrame

SnapshotLoad == dyn_snapshot_load /\ DynFrame

NextSnapshot ==
    \/ SnapSetOpenMat \/ SnapSetOpenPos \/ SnapSetEndMat \/ SnapSetEndPos
    \/ SnapSetComplexity \/ SnapshotLoad

SpecSnapshot == Init /\ [][NextSnapshot]_vars

-----------------------------------------------------------------------------
(* Phase Detector claims (SpecPhase) *)

\* The calls of the observer window, oldest first, when the window is full.
Full(t) == Len(hist[t]) = 3
AtRest(s) == s.counter = 0 /\ s.cooldown = 0

\* C1 (as claimed): a thread at rest in stable phase S whose candidate phase
\* changes on every one of its next calls is returned S by each of them.
C1_OscillationKeepsPhase ==
    \A t \in Threads :
        ( /\ Full(t)
          /\ AtRest(hist[t][1].pre)
          /\ hist[t][1].cand # hist[t][2].cand
          /\ hist[t][2].cand # hist[t][3].cand )
        => \A i \in 1..3 : hist[t][i].ret = hist[t][1].pre.stable

\* C2 (as claimed): from any detector state with stable phase S, three
\* consecutive calls with one candidate C # S make the third call return C and
\* leave the stability counter 0 and the cooldown 4.
C2_ThreeCallsCommit_AnyState ==
    \A t \in Threads :
        ( /\ Full(t)
          /\ hist[t][1].cand = hist[t][2].cand
          /\ hist[t][2].cand = hist[t][3].cand
          /\ hist[t][1].cand # hist[t][1].pre.stable )
        => /\ hist[t][3].ret = hist[t][1].cand
           /\ stabilityCounter[t] = 0
           /\ phaseChangeCooldown[t] = cooldownMax

\* C2 (amended): from a detector state with stable phase S, stability counter 0
\* and cooldown 0, three consecutive calls with one candidate C # S return
\* S, S and then C: the third call commits C, resets the stability counter to
\* 0 and sets the cooldown to 4.
C2_ThreeCallsCommit ==
    \A t \in Threads :
        ( /\ Full(t)
          /\ AtRest(hist[t][1].pre)
          /\ hist[t][1].cand = hist[t][2].cand
          /\ hist[t][2].cand = hist[t][3].cand
          /\ hist[t][1].cand # hist[t][1].pre.stable )
        => /\ hist[t][1].ret = hist[t][1].pre.stable
           /\ hist[t][2].ret = hist[t][1].pre.stable
           /\ hist[t][3].ret = hist[t][1].cand
           /\ stablePhase[t] = hist[t][1].cand
           /\ stabilityCounter[t] = 0
           /\ phaseChangeCooldown[t] = cooldownMax

C2_Witness ==
    /\ Full(MainThread)
    /\ hist[MainThread][1].pre = [stable |-> 1, counter |-> 0, cooldown |-> 0]
    /\ \A i \in 1..3 : hist[MainThread][i].cand = 2
    /\ hist[MainThread][3].ret = 2

\* C3: each of the 4 calls of a thread that follow a call which committed
\* phase P returns P, whatever the candidate: in every step taken while fewer
\* than 4 calls have followed the commit, the phase returned last is still P.
C3_CooldownProtectsCommit ==
    [][\A t \in Threads :
          sinceCommit[t] \in 0..3 =>
              hist'[t][Len(hist'[t])].ret = commitPhase[t]]_vars

\* Four calls after a commit of phase 1, the last three of them with the
\* candidate back across the boundary, and phase 1 still returned.
C3_Witness ==
    /\ sinceCommit[MainThread] = 4
    /\ commitPhase[MainThread] = 1
    /\ \A i \in 1..3 : /\ hist[MainThread][i].cand = 0
                        /\ hist[MainThread][i].ret = 1



-----------------------------------------------------------------------------
(* Blend Cache and Style Blend Engine claims *)

\* Thread t made a call of update_weights_with_blend in this step.
Called(t) == call'[t] # call[t]

Sum3(w) == w[1] + w[2] + w[3]

\* C4: an ungated call that finds its key and the detector's phase in the
\* thread's cache returns the three cached weights, recomputes nothing and
\* writes neither the cache nor the Strategy weights; and of two consecutive
\* ungated calls of a thread with the same key and the same reported phase,
\* the second returns the weights the first returned.
C4_CacheHitReturnsCached ==
    [][\A t \in Threads :
          /\ ( /\ Called(t)
               /\ ~call'[t].gated
               /\ blend_cache_hit(t, call'[t].key, call'[t].phase) )
             => /\ call'[t].out = CachedWeights(t)
                /\ ~call'[t].recomputed
                /\ UNCHANGED <<gBlendCache, StrategyMaterialWeight,
                               StrategyPositionalWeight, gLastCommitted, lastSeen>>
          /\ ( /\ Called(t)
               /\ ~call[t].gated /\ ~call'[t].gated
               /\ call'[t].key = call[t].key
               /\ call'[t].phase = call[t].phase )
             => call'[t].out = call[t].out]_vars

\* A call served from the cache right after the call that filled it, with
\* other in/out weights.
C4_Witness ==
    /\ call[MainThread].hit
    /\ ~call[MainThread].recomputed
    /\ call[MainThread].inw = <<120, -10, 5>>
    /\ call[MainThread].out = <<78, 11, 11>>
    /\ gBlendCache[MainThread].key = call[MainThread].key

\* C5: the weights returned by a call served from the cache are the weights
\* the recomputation path gives for that call's position, phase and in/out
\* weights.
C5_MemoizationTransparent ==
    \A t \in Threads :
        (~call[t].gated /\ call[t].hit)
        => call[t].out = Recompute(call[t].key, call[t].phase, call[t].inw)

\* A hit in a phase other than the initial one.
C5_Witness ==
    /\ call[MainThread].hit
    /\ call[MainThread].phase = 1
    /\ call[MainThread].key = 2
    /\ call[MainThread].out = <<76, 13, 11>>

\* C6 (as claimed): the weights that leave the final step lie in [0,100] each
\* and, when the clamped weights have a positive sum, add up to exactly 100.
C6_NormalizedSumIs100 ==
    normOut # <<>> =>
        /\ \A i \in 1..3 : normOut[i] \in 0..100
        /\ Sum3(<<Clamp(normIn[1], 0, 100), Clamp(normIn[2], 0, 100),
                   Clamp(normIn[3], 0, 100)>>) > 0
           => Sum3(normOut) = 100

\* C7 (as claimed): every value written to StrategyMaterialWeight or to
\* StrategyPositionalWeight lies in [5,30].
C7_WritesClamped ==
    [][/\ StrategyMaterialWeight' # StrategyMaterialWeight
          => StrategyMaterialWeight' \in minWeight..maxWeight
       /\ StrategyPositionalWeight' # StrategyPositionalWeight
          => StrategyPositionalWeight' \in minWeight..maxWeight]_vars

\* C8 (as claimed): when a thread has executed the commit step, the two
\* Strategy weights hold the pair that commit step computed: no commit step is
\* dropped in favour of a pair written earlier by another thread.
C8_LastCommitWins ==
    [][\A t \in Threads :
          (Called(t) /\ call'[t].commit # <<>>)
          => <<StrategyMaterialWeight', StrategyPositionalWeight'>> = call'[t].commit]_vars

\* C9: a call of thread t leaves the detector state, the cache entry and the
\* dedup state of every other thread as they were, and the phase it is
\* returned and its hit/miss outcome are those of the thread running alone.
C9_ThreadIsolation ==
    [][\A t \in Threads :
          Called(t) =>
              /\ \A u \in Threads \ {t} :
                    /\ stablePhase'[u] = stablePhase[u]
                    /\ stabilityCounter'[u] = stabilityCounter[u]
                    /\ phaseChangeCooldown'[u] = phaseChangeCooldown[u]
                    /\ gBlendCache'[u] = gBlendCache[u]
                    /\ gLastCommitted'[u] = gLastCommitted[u]
                    /\ lastSeen'[u] = lastSeen[u]
              /\ ~call'[t].gated =>
                    /\ call'[t].phase = solo'[t].ret
                    /\ call'[t].hit = solo'[t].hit]_vars

\* Both threads have called, they are in different phases, and one was served
\* from its cache while the other was not.
C9_Witness ==
    /\ stablePhase["t1"] = 1 /\ stablePhase["t2"] = 2
    /\ call["t1"].hit /\ ~call["t2"].hit /\ ~call["t2"].gated
    /\ gBlendCache["t1"].key # gBlendCache["t2"].key

\* C10: a call made while the style is disabled or NNUE ManualWeights is on
\* returns its three in/out weights as they were passed and leaves the detector
\* state, the cache, the dedup state and both Strategy weights unchanged.
C10_GatedCallIsNoOp ==
    [][\A t \in Threads :
          (Called(t) /\ (~Options.style \/ Options.ManualWeights))
          => /\ call'[t].out = call'[t].inw
             /\ UNCHANGED <<detVars, gBlendCache, gLastCommitted, lastSeen,
                            StrategyMaterialWeight, StrategyPositionalWeight>>]_vars

\* A call under ManualWeights, with the style enabled, after the cache was filled.
C10_Witness ==
    /\ call[MainThread].gated
    /\ Options.style /\ Options.ManualWeights
    /\ call[MainThread].out = <<120, -10, 5>>
    /\ gBlendCache[MainThread].key # 0

-----------------------------------------------------------------------------
(* Evaluation claims (SpecEval) *)

\* C11: every call of the blender returns (psqt + positional) / OutputScale
\* when adjusted is false and ((1024 - delta + StrategyMaterialWeight) * psqt +
\* (1024 + delta + StrategyPositionalWeight) * positional) / (1024 * OutputScale)
\* when it is true, the quotient truncated toward zero; with delta 24, both
\* Strategy weights 0 and psqt = positional = 100 that is
\* (1000 * 100 + 1048 * 100) / (1024 * OutputScale).
C11_BlenderFormula ==
    [][(ev' # ev /\ ev'.op # "none") =>
         /\ ev'.out =
              IF ev'.adjusted
                THEN CDiv((1024 - ev'.delta + StrategyMaterialWeight) * ev'.psqt
                            + (1024 + ev'.delta + StrategyPositionalWeight) * ev'.positional,
                          1024 * OutputScale)
                ELSE CDiv(ev'.psqt + ev'.positional, OutputScale)
         /\ (/\ ev'.adjusted /\ ev'.delta = 24 /\ ev'.psqt = 100 /\ ev'.positional = 100
             /\ StrategyMaterialWeight = 0 /\ StrategyPositionalWeight = 0)
              => ev'.out = CDiv(1000 * 100 + 1048 * 100, 1024 * OutputScale)]_vars

\* An adjusted call with a negative weighted sum that the divisor does not
\* divide, after the Strategy weights were written.
C11_Witness ==
    /\ ev.op = "combine" /\ ev.adjusted /\ ev.delta = 24
    /\ ev.psqt = -17 /\ ev.positional = 0
    /\ StrategyMaterialWeight = 15
    /\ ev.out = -1

\* C19: hint_common_parent_position picks the Big model without psqtOnly for
\* a position whose absolute simple evaluation does not exceed
\* SmallNetThreshold, and the Small model for one that exceeds it, with
\* psqtOnly exactly when it also exceeds PsqtOnlyThreshold; psqtOnly is never
\* asked of the Big model.
C19_ModelSelection ==
    hint.called =>
        LET a == Abs(hint.simpleEval)
        IN  /\ a <= SmallNetThreshold => (hint.net = "Big" /\ ~hint.psqtOnly)
            /\ a > SmallNetThreshold =>
                  (hint.net = "Small" /\ (hint.psqtOnly <=> a > PsqtOnlyThreshold))
            /\ hint.net = "Big" => ~hint.psqtOnly

\* A position exactly at the small-net threshold, for the side that is behind.
C19_Witness ==
    /\ hint.called
    /\ hint.simpleEval = -SmallNetThreshold
    /\ hint.net = "Big"

\* C20: a call of evaluate<Net_Size> with psqtOnly does not run the
\* sub-network, uses 0 as positional contribution, writes complexity 0 when
\* the complexity is requested and returns the blender's result for (psqt, 0);
\* a call without psqtOnly writes |psqt - positional| / OutputScale.
C20_PsqtOnlyEvaluation ==
    [][(ev' # ev /\ ev'.op = "evaluate") =>
         /\ ev'.psqtOnly =>
              /\ ~ev'.propagated
              /\ ev'.positional = 0
              /\ ev'.wantComplexity => ev'.complexity = 0
              /\ ev'.out = evaluate(ev'.psqt, 0, 24, ev'.adjusted)
         /\ (~ev'.psqtOnly /\ ev'.wantComplexity) =>
              /\ ev'.propagated
              /\ ev'.complexity = CDiv(Abs(ev'.psqt - ev'.netOut), OutputScale)]_vars

\* A psqtOnly call on a position whose sub-network output is not 0, with the
\* complexity requested.
C20_Witness ==
    /\ ev.op = "evaluate" /\ ev.psqtOnly /\ ev.wantComplexity
    /\ ev.netOut = 100 /\ ev.psqt = 100
    /\ ev.complexity = 0 /\ ev.positional = 0 /\ ~ev.propagated

-----------------------------------------------------------------------------
(* Parameter Store claims: loads (SpecStore) *)

\* The u32 field at byte offset off of the file d, when the file has it.
HasField(d, off) == off + 4 <= Len(d)
Field(d, off) == FromLE(SubSeq(d, off + 1, off + 4))

\* Byte offsets of the fields of a file whose header is whole.
VersionAt == 0
ContentHashAt == 4
DescLenAt == 8
FTHashAt(d) == 12 + Field(d, DescLenAt)
NetHashAt(d, b) == FTHashAt(d) + 4 + FTBytes + (b - 1) * (4 + NetBytes)

\* The field at off is in the file and is not v.
Differs(d, off, v) == HasField(d, off) /\ Field(d, off) # v

\* The last call was a load of the file d for the size n.
Loaded(d, n) == io.op = "load" /\ io.data = d /\ io.netSize = n

\* The buffers of a store hold zeros only.
AllZero(s) ==
    /\ s.featureTransformer = Zeros(FTBytes)
    /\ s.network = [b \in 1..LayerStacks |-> Zeros(NetBytes)]

\* C12: load returns false for every stream whose version field differs from
\* Version, and for every stream in which the hash of the feature-transformer
\* section or of one sub-network's section differs from the hash expected for
\* that type.
C12_FormatErrorsRejected ==
    io.op = "load" =>
        LET d == io.data
            n == io.netSize
        IN  /\ Differs(d, VersionAt, Version) => ~io.ok
            /\ HasField(d, DescLenAt) =>
                 /\ Differs(d, FTHashAt(d), FTHash(n)) => ~io.ok
                 /\ \A b \in 1..LayerStacks : Differs(d, NetHashAt(d, b), NetHash(n)) => ~io.ok

\* The file whose only fault is the hash of the last sub-network's section
\* was loaded, and refused.
C12_Witness ==
    /\ Loaded([RefBig EXCEPT ![NetHashAt(RefBig, LayerStacks) + 1] = @ + 1], "Big")
    /\ ~io.ok

\* C13: load returns true only for a stream that is consumed exactly to its
\* end, i.e. that is the header and the sections of the parameters now in the
\* store and nothing else; a valid stream cut short anywhere, and a valid
\* stream followed by one more byte, make load return false.
C13_ExactConsumption ==
    io.op = "load" =>
        LET s == store[io.netSize]
        IN  /\ io.ok => io.data = Format(io.netSize, s.netDescription.text,
                                         s.featureTransformer, s.network)
            /\ \A d \in {RefBig, RefSmall} :
                  io.data \in Truncations(d) \cup {Extended(d)} => ~io.ok

\* The valid file with one byte appended was loaded and refused, every section
\* read.
C13_Witness ==
    /\ Loaded(Extended(RefBig), "Big")
    /\ ~io.ok
    /\ store["Big"].network = NetParams(1)

\* What load returns for the file d and the size n (the store's content before
\* the call does not matter: the buffers are reset).
LoadOutcome(d, n) == LoadResult("nn.nnue", IStream(d), n).ok

\* The file d with v as header contentHash.
WithContentHash(d, v) == Take(d, 4) \o U32LE(v) \o Drop(d, 8)

\* C15 (as claimed): the header contentHash does not decide a load: a stream
\* and the same stream with another header contentHash have the same outcome.
C15_ContentHashIgnored ==
    (io.op = "load" /\ HasField(io.data, ContentHashAt)) =>
        \A v \in {0, HashValue("Big"), HashValue("Small")} :
            LoadOutcome(WithContentHash(io.data, v), io.netSize) = io.ok

\* C15 (amended): the header contentHash is compared with the hash expected
\* for the size, and load returns false for every stream whose header
\* contentHash differs from it.
C15_ContentHashChecked ==
    io.op = "load" =>
        (Differs(io.data, ContentHashAt, HashValue(io.netSize)) => ~io.ok)

\* The valid file with another header contentHash was loaded and refused
\* before any section was read.
C15_Witness ==
    /\ Loaded([RefBig EXCEPT ![ContentHashAt + 1] = @ + 1], "Big")
    /\ ~io.ok
    /\ AllZero(store["Big"])

\* C16: whenever load returns false, every parameter buffer of the size holds
\* zeros: nothing of the parameters loaded before and nothing of the sections
\* read so far is left.
C16_FailedLoadLeavesZeros ==
    (io.op = "load" /\ ~io.ok) => AllZero(store[io.netSize])

-----------------------------------------------------------------------------
(* Parameter Store claims: save and load again (SpecRoundTrip) *)

\* A step that saves the size n to a good stream.
SavesGood(n) == save_eval(n, FALSE)

\* A step that loads the size n from the stream just saved to, read from its
\* start.
LoadsBack(n) ==
    /\ io.op = "save" /\ io.netSize = n /\ stream.pos = 0
    /\ io'.op = "load" /\ io'.netSize = n /\ stream' # stream

\* The description and the parameters of two stores are the same.
SameParameters(s1, s2) ==
    /\ s1.netDescription = s2.netDescription
    /\ s1.featureTransformer = s2.featureTransformer
    /\ s1.network = s2.network

\* The store s of the size n was saved whole to the stream st.
SavedWhole(st, n, s) ==
    /\ ~st.fail
    /\ st.data = Format(n, s.netDescription.text, s.featureTransformer, s.network)
    /\ Field(st.data, ContentHashAt) = HashValue(n)

\* C14: after a successful load of a size, save(stream) of that size
\* succeeds and writes the header and the sections of the store, and loading
\* the stream written for the same size succeeds and gives the same
\* description, the same parameters and the same content hash.
C14_RoundTrip ==
    [][\A n \in NetSizes :
         /\ (SavesGood(n) /\ store[n].loaded) => (io'.ok /\ SavedWhole(stream', n, store[n]))
         /\ (LoadsBack(n) /\ io.ok /\ store[n].loaded) =>
               (io'.ok /\ store'[n].loaded /\ SameParameters(store'[n], store[n]))]_vars

\* The Small parameters with the two-byte description were saved and loaded
\* back, and the stream was read to its end.
C14_Witness ==
    /\ io.op = "load" /\ io.ok /\ io.netSize = "Small"
    /\ stream.pos = Len(stream.data) /\ stream.pos > 0
    /\ store["Small"].netDescription.text = <<8, 9>>
    /\ store["Small"].network = NetParams(2)

-----------------------------------------------------------------------------
(* Parameter Store claims: saves to files (SpecSaveFile) *)

\* C17: save(optionalFilename, size) without a file name, when the network
\* selected for the size is not the default one, returns false and opens and
\* writes no file; without a file name and with the default network selected
\* it writes to the default file name; with a file name it writes to that
\* file; in both cases no other file is touched and it returns what the save
\* to the stream returns.
C17_SaveToFile ==
    [][\A filename \in OptFilenames, n \in NetSizes, openFails \in BOOLEAN :
         save_file(filename, n, openFails) =>
            IF ~filename.has /\ EvalFiles[n] # DefaultName(n)
              THEN ~io'.ok /\ files' = files
              ELSE LET target == IF filename.has THEN filename.name ELSE DefaultName(n)
                   IN  /\ io'.ok = SaveResult(n, openFails).ok
                       /\ io'.name = target
                       /\ ~openFails => files'[target] = SaveResult(n, openFails).data
                       /\ \A f \in FileNames \ {target} : files'[f] = files[f]]_vars

\* A save without a file name was refused for a network that is not the
\* default one, although the parameters of the size are loaded and the default
\* file does not exist.
C17_Witness ==
    /\ io.op = "savefile" /\ io.netSize = "Small" /\ ~io.ok /\ io.name = ""
    /\ EvalFiles["Small"] = "x.nnue"
    /\ store["Small"].loaded
    /\ files["nn-small.nnue"] = NoFile
    /\ files["out.nnue"] = RefBig

-----------------------------------------------------------------------------
(* Engine claims (SpecEngine) *)

-----------------------------------------------------------------------------
(* Candidate phase and debounce claims (SpecPhase) *)

\* The candidate phase of the last call of thread t.
LastCand(t) == hist'[t][Len(hist'[t])].cand

\* C21: the candidate phase of every call of determine_dynamic_phase is
\* Endgame (2) when the summed value of the non-king pieces of its position is
\* <= 1300, Middlegame (1) when it is > 1300 and <= 2000, and Opening (0) when
\* it is > 2000.
C21_CandidatePhaseMapping ==
    [][\A k \in Keys :
          determine_dynamic_phase(MainThread, k) =>
              LET material == calculate_material(k)
              IN  /\ material <= 1300 => LastCand(MainThread) = 2
                  /\ (material > 1300 /\ material <= 2000) => LastCand(MainThread) = 1
                  /\ material > 2000 => LastCand(MainThread) = 0]_vars

\* Three calls whose positions lie in the three ranges of material: a queen
\* (2538), a rook and a pawn (1484) and a rook (1276), kings aside.
C21_Witness ==
    /\ Full(MainThread)
    /\ hist[MainThread][1].cand = 0
    /\ hist[MainThread][2].cand = 1
    /\ hist[MainThread][3].cand = 2

-----------------------------------------------------------------------------
(* Style Blend Engine claims: mixing, nudge, renormalization, toggle *)

\* C22 (as claimed): the fraction that mixes the two indicator targets of a
\* style weight in a recomputation is 0 when the detected phase is Endgame (2),
\* 1 when it is Opening (0) and, linear in between, 1/2 when it is Middlegame
\* (1); the fraction is counted in hundredths.
C22_PhaseMixingFraction ==
    \A t \in Threads :
        call[t].recomputed =>
            /\ call[t].phase = 2 => phaseFactor(call[t].phase) = 0
            /\ call[t].phase = 1 => phaseFactor(call[t].phase) = 50
            /\ call[t].phase = 0 => phaseFactor(call[t].phase) = 100

\* The weights that entered step 5, clamped, and a weight rescaled with
\* rounding to a total of 100.
ClampedIn == <<Clamp(normIn[1], 0, 100), Clamp(normIn[2], 0, 100), Clamp(normIn[3], 0, 100)>>
Rescaled(x, total) == (x * 100 + total \div 2) \div total
Renormalized == normOut # <<>> /\ Sum3(ClampedIn) > 0 /\ Sum3(ClampedIn) # 100

\* C23 (as claimed): when the clamped weights <<tal, petrosian, capablanca>>
\* have a positive sum different from 100, Tal and Capablanca are rescaled
\* with rounding and Petrosian is 100 minus their sum, clamped to [0,100].
C23_ResidualToPetrosian ==
    Renormalized =>
        /\ normOut[1] = Rescaled(ClampedIn[1], Sum3(ClampedIn))
        /\ normOut[3] = Rescaled(ClampedIn[3], Sum3(ClampedIn))
        /\ normOut[2] = Clamp(100 - (normOut[1] + normOut[3]), 0, 100)

\* C23 (amended): when the clamped weights have a positive sum different from
\* 100, Tal and Petrosian are rescaled with rounding and Capablanca, the third
\* in/out weight, is 100 minus their sum, clamped to [0,100].
C23_ResidualToCapablanca ==
    Renormalized =>
        /\ normOut[1] = Rescaled(ClampedIn[1], Sum3(ClampedIn))
        /\ normOut[2] = Rescaled(ClampedIn[2], Sum3(ClampedIn))
        /\ normOut[3] = Clamp(100 - (normOut[1] + normOut[2]), 0, 100)

\* Three equal weights: Tal and Petrosian round down to 33 and Capablanca
\* takes the residual, 34.
C23_Witness ==
    /\ normIn = <<1, 1, 1>>
    /\ normOut = <<33, 33, 34>>

\* C24 (as claimed): a call that recomputes while NNUE Dynamic Weights is off
\* uses the default phase (Middlegame) in place of the detector's phase: the
\* weights it returns, the phase of the cache entry it writes and the pair it
\* commits to the Strategy weights are those of the default phase, whatever
\* the state of the Phase Detector.
C24_ToggleOffIgnoresDetector ==
    [][\A t \in Threads :
          (Called(t) /\ ~Options.DynamicWeights /\ call'[t].recomputed)
          => /\ call'[t].out = Recompute(call'[t].key, CommitPhaseArg(0), call'[t].inw)
             /\ gBlendCache'[TLS(t)].phase = CommitPhaseArg(0)
             /\ call'[t].commit =
                    CommitPair(t, CommitPhaseArg(0),
                               MixedWeights(call'[t].key, CommitPhaseArg(0), call'[t].inw))]_vars

\* C25 (as claimed): in every adjusted evaluation made after any sequence of
\* Style Blend Engine calls and adjust_nnue_for_style calls, the positional
\* coefficient 1024 + 24 + StrategyPositionalWeight is strictly greater than
\* the material coefficient 1024 - 24 + StrategyMaterialWeight.
C25_PositionalBias ==
    [][(ev' # ev /\ ev'.op = "evaluate" /\ ev'.adjusted)
       => 1024 + ev'.delta + StrategyPositionalWeight
            > 1024 - ev'.delta + StrategyMaterialWeight]_vars

\* C26: the tactical complexity c of every recomputation lies in [0,12], and
\* the weights handed on are the averaged weights with 2*c added to Tal and c
\* taken from each of Petrosian and Capablanca, so their sum is the sum of the
\* averaged weights; the call returns these weights normalised.
C26_TacticalNudge ==
    \A t \in Threads :
        call[t].recomputed =>
            LET c == TacticalComplexity(call[t].key)
                a == AveragedWeights(call[t].key, call[t].phase, call[t].inw)
                m == MixedWeights(call[t].key, call[t].phase, call[t].inw)
            IN  /\ c \in 0..12
                /\ m = <<a[1] + 2 * c, a[2] - c, a[3] - c>>
                /\ Sum3(m) = Sum3(a)
                /\ call[t].out = Normalize(<<a[1] + 2 * c, a[2] - c, a[3] - c>>)

\* A recomputation on the position whose raw complexity, 16, is clamped to 12:
\* the averaged weights (66, 66, 67) become (90, 54, 55).
C26_Witness ==
    /\ call[MainThread].recomputed
    /\ call[MainThread].key = 4
    /\ TacticalComplexity(4) = 12
    /\ AveragedWeights(4, call[MainThread].phase, SharedWeights) = <<66, 66, 67>>
    /\ call[MainThread].out = Normalize(<<90, 54, 55>>)

-----------------------------------------------------------------------------
(* Diagnostic Tracer claims (SpecTrace) *)

\* The squares whose content differs from the placement trace was called with.
Changed(b) == {sq \in Squares : b[sq] # tr.before[sq]}

\* C27: trace takes only non-king pieces off the board; at every moment at
\* most one square differs from the placement of the call, and that square is
\* empty; the placement is that of the call whenever the loop is about to
\* process a square, and when trace returns.
C27_TraceRestoresPosition ==
    [][/\ \A sq \in Squares :
             (piece_on'[sq] # piece_on[sq] /\ piece_on'[sq] = NO_PIECE)
             => (piece_on[sq] # NO_PIECE /\ piece_on[sq] \notin Kings)
       /\ Cardinality(Changed(piece_on')) <= 1
       /\ \A sq \in Changed(piece_on') : piece_on'[sq] = NO_PIECE
       /\ tr'.pc \in {"square", "table", "done"} => piece_on' = tr.before
       /\ tr'.before = tr.before]_vars

\* trace has returned from a placement with a pawn and a knight beside the
\* kings, after two removals.
C27_Witness ==
    /\ tr.pc = "done"
    /\ tr.removals = 2
    /\ piece_on = tr.before
    /\ \E sq \in Squares : piece_on[sq] = "P"
    /\ \E sq \in Squares : piece_on[sq] = "n"

\* The tracer is about to evaluate the position.
AtEvaluation == tr.pc \in {"base", "eval", "table"}

AllFlagsFalse(acc) == \A c \in Colors : ~acc.computed[c] /\ ~acc.computedPSQT[c]

\* C28: at every evaluation that follows a remove_piece or a put_piece of
\* trace, the four computed flags of the Big accumulator are false, and every
\* evaluation of trace is made of the placement the position has at that
\* moment.
C28_AccumulatorInvalidated ==
    [][AtEvaluation =>
          /\ tr.mutated => AllFlagsFalse(accumulatorBig)
          /\ tr'.seen = piece_on]_vars

\* The evaluation made with a knight off the board: the accumulator, computed
\* by the base evaluation and then cleared, was recomputed for that placement.
C28_Witness ==
    /\ tr.pc = "put"
    /\ tr.piece = "n"
    /\ tr.seen = piece_on
    /\ tr.seen # tr.before
    /\ accumulatorBig.computed["WHITE"] /\ accumulatorBig.computedPSQT["BLACK"]

-----------------------------------------------------------------------------
(* Material bucket claim (SpecBucket) *)

\* C29: for every piece count from 2 to 32 the bucket evaluate<Net> uses and
\* the bucket the tracer marks as used are both (count - 1) / 4, a bucket
\* index in [0, PSQTBuckets - 1], and of two positions the one with no more
\* pieces has no greater bucket.
C29_MaterialBucket ==
    buckets.count # 0 =>
        /\ buckets.used = (buckets.count - 1) \div 4
        /\ buckets.marked = {(buckets.count - 1) \div 4}
        /\ buckets.used \in 0..(PSQTBuckets - 1)
        /\ (buckets.prevCount # 0 /\ buckets.prevCount <= buckets.count)
           => buckets.prevUsed <= buckets.used

\* The full board after the bare kings: bucket 7, the last one, after bucket 0.
C29_Witness ==
    /\ buckets.count = 32 /\ buckets.used = 7 /\ buckets.marked = {7}
    /\ buckets.prevCount = 2 /\ buckets.prevUsed = 0

-----------------------------------------------------------------------------
(* Debounce claim (SpecPhase) *)

\* C30 (as claimed): the stable phase of a thread changes only to a phase that
\* was the candidate phase of each of the thread's three most recent calls of
\* determine_dynamic_phase, the committing call included.
C30_CommitNeedsThreeAgreeingCalls ==
    [][\A t \in Threads :
          stablePhase'[t] # stablePhase[t] =>
              /\ Len(hist'[t]) = 3
              /\ \A i \in 1..3 : hist'[t][i].cand = stablePhase'[t]]_vars

\* ---------------------------------------------------------------------------
\* C31  Minimum distance between phase commits: on one thread, a call of
\* determine_dynamic_phase that commits a new stable phase after an earlier
\* commit is at least the 7th call after that commit (4 calls consume the
\* cooldown, then 3 consecutive differing observations).
C31_MinimumCommitDistance ==
    [][\A t \in Threads :
          (stablePhase'[TLS(t)] # stablePhase[TLS(t)] /\ sinceCommit[t] >= 0)
             => sinceCommit[t] + 1 >= cooldownMax + stabilityThreshold]_vars

\* A second commit has just happened: the three calls before it found the
\* phase of the earlier commit with the cooldown already consumed.
C31_Witness ==
    /\ sinceCommit[MainThread] = 0
    /\ commitPhase[MainThread] = 2
    /\ Len(hist[MainThread]) = 3
    /\ hist[MainThread][1].pre = [stable |-> 1, counter |-> 0, cooldown |-> 0]
    /\ \A i \in 1..3 : hist[MainThread][i].cand = 2
    /\ hist[MainThread][3].ret = 2

\* ---------------------------------------------------------------------------
\* C32  Phase Detector state invariant: between calls, on every thread, the
\* stable phase is in {0,1,2}, the stability counter in [0,2], the cooldown in
\* [0,4], and the counter is 0 whenever the cooldown is greater than 0; a call
\* rejected by the cooldown decrements the cooldown by 1 and leaves the stable
\* phase and the stability counter unchanged.
DetectorInvariant(s) ==
    /\ s.stable \in {0, 1, 2}
    /\ s.counter \in 0..2
    /\ s.cooldown \in 0..4
    /\ (s.cooldown > 0 => s.counter = 0)

DetectorNext(t) ==
    [stable   |-> stablePhase'[TLS(t)],
     counter  |-> stabilityCounter'[TLS(t)],
     cooldown |-> phaseChangeCooldown'[TLS(t)]]

C32_DetectorInvariant ==
    [][\A t \in Threads :
          /\ DetectorInvariant(DetectorOf(t))
          /\ DetectorInvariant(DetectorNext(t))
          /\ (hist'[t] # hist[t] /\ CooldownRejects(DetectorOf(t), LastCand(t)))
                => DetectorNext(t) =
                     [DetectorOf(t) EXCEPT !.cooldown = @ - 1]]_vars

\* The last call was rejected by a cooldown of 4 and left 3 of it.
C32_Witness ==
    /\ Len(hist[MainThread]) > 0
    /\ LET e == hist[MainThread][Len(hist[MainThread])]
       IN  /\ e.pre = [stable |-> 1, counter |-> 0, cooldown |-> 4]
           /\ e.cand # 1
    /\ stablePhase[TLS(MainThread)] = 1
    /\ stabilityCounter[TLS(MainThread)] = 0
    /\ phaseChangeCooldown[TLS(MainThread)] = 3

\* ---------------------------------------------------------------------------
\* C33  Torn pair under the accepted race: the commit writes the material
\* weight and the positional weight as two separate unsynchronized stores, so
\* an adjusted evaluation reads a material weight that some commit (or the
\* initial value) wrote and a positional weight that some commit (or the
\* initial value) wrote, and the two need not come from the same commit: a pair
\* that no single commit wrote is read in a reachable interleaving (the witness).
C33_ReadsWrittenComponents ==
    reading.pc = "done" =>
        /\ reading.material \in {p[1] : p \in written \cup {InitialWeights}}
        /\ reading.positional \in {p[2] : p \in written \cup {InitialWeights}}

\* An adjusted evaluation has read a pair that is neither the initial pair nor
\* the pair of any commit: its two weights come from different writes.
C33_Witness ==
    /\ reading.pc = "done"
    /\ <<reading.material, reading.positional>> \notin written \cup {InitialWeights}
    /\ written # {}

\* ---------------------------------------------------------------------------
\* C34  save(stream, size) emits a parameter stream for a size only when the
\* most recent load of that size returned true: after a load that returned
\* false, or before any load, it returns false and writes nothing.
C34_SaveOnlyAfterGoodLoad ==
    [][(io'.op = "save" /\ ~store[io'.netSize].loaded)
          => (~io'.ok /\ io'.data = <<>> /\ stream'.data = <<>>)]_vars

\* ---------------------------------------------------------------------------
\* C35  resize_threads, set_tt_size, search_clear, and
\* set_numa_config_from_option through resize_threads, first wait until any
\* running search has finished: no step that sets the thread pool, resizes or
\* clears the transposition table or clears the search state is taken while a
\* search is in progress.
PoolMutated ==
    \/ pool'.sets # pool.sets \/ pool'.threadsNuma # pool.threadsNuma
    \/ pool'.resizes # pool.resizes \/ pool'.tt # pool.tt
    \/ pool'.clears # pool.clears

C35_MutationsWaitForSearch ==
    [][PoolMutated => (~engine.searching /\ ~engine'.searching)]_vars

\* set_numa_config_from_option("none") was called while a search ran; the
\* pool was set with the new configuration and the table resized after the
\* search had finished.
C35_Witness ==
    /\ pool.inSearch /\ engine.pc = "idle" /\ ~engine.searching
    /\ pool.numa = "none" /\ pool.threadsNuma = "none"
    /\ pool.sets = 1 /\ pool.resizes = 1

\* ---------------------------------------------------------------------------
\* C36  Engine::set_position replaces the state list with a fresh one holding
\* a single entry, then applies the given moves in order up to but excluding
\* the first move that does not convert to a valid move, ignoring every later
\* move; on return the state list holds one entry plus one entry per applied
\* move.
AppliedMoves == Len(position.states) - 1

C36_MovesUpToFirstInvalid ==
    /\ Len(position.states) >= 1
    /\ position.states[1] = StartFEN
    /\ AppliedMoves <= Len(position.moves)
    /\ \A i \in 1..AppliedMoves :
          /\ position.states[i + 1] = position.moves[i]
          /\ to_move(SubSeq(position.states, 1, i), position.moves[i]) # Move_none
    /\ AppliedMoves < Len(position.moves)
          => to_move(position.states, position.moves[AppliedMoves + 1]) = Move_none

\* The first move was applied, the second does not convert, and the third,
\* which would convert, was ignored.
C36_Witness ==
    /\ position.moves = <<"e2e4", "0000", "e7e5">>
    /\ position.states = <<StartFEN, "e2e4">>

\* ---------------------------------------------------------------------------
\* C37  Dynamic parameter bounds: after any sequence of set_dyn_* calls with
\* any integer arguments, open_mat, open_pos, end_mat and end_pos lie in
\* [-16,16] and complexity lies in [0,50]; each setter stores the clamped
\* argument into its own field and leaves the other four fields unchanged.
Nearest(v, lo, hi) == IF v < lo THEN lo ELSE IF v > hi THEN hi ELSE v

C37_DynParamsBounded ==
    [][/\ \A f \in {"open_mat", "open_pos", "end_mat", "end_pos"} : g_dyn'[f] \in -16..16
       /\ g_dyn'.complexity \in 0..50
       /\ g_dyn' = [g_dyn EXCEPT ![dynCall'.field] =
                      IF dynCall'.field = "complexity"
                      THEN Nearest(dynCall'.arg, 0, 50)
                      ELSE Nearest(dynCall'.arg, -16, 16)]]_vars

\* Arguments beyond both limits have been stored: the parameters sit on their
\* limits after a call of set_dyn_end_pos(INT_MIN).
C37_Witness ==
    /\ dynCall = [field |-> "end_pos", arg |-> INT_MIN]
    /\ g_dyn = [open_mat |-> 16, open_pos |-> -16, end_mat |-> 16, end_pos |-> -16,
                complexity |-> 50]

\* ---------------------------------------------------------------------------
\* C38  dyn_snapshot is atomic with respect to the setters: the five values
\* one call returns are values the five parameters held together at one
\* instant during the call.
C38_SnapshotAtomic ==
    snap.loaded = 5 => snap.val \in snap.seen
====
